---- MODULE Spec2Model ----
(***************************************************************************)
(* Phantasm ghost-job scorer: the aggregator (scoring/ghost_score.py) and  *)
(* the orchestrating request handlers (routers/analyze.py,                 *)
(* routers/web_analyze.py).                                                *)
(*                                                                         *)
(* Python values are represented as follows.                               *)
(*   Optional[RedFlag]   a RedFlag record, or the record None              *)
(*   (delta, flag)       the tuple <<delta, flag>>                         *)
(*   Optional[list]      [isNone |-> BOOLEAN, items |-> sequence]          *)
(*   postedDate          [kind, days]: what datetime.fromisoformat and the *)
(*                       subtraction from now make of the string           *)
(***************************************************************************)
EXTENDS Integers, Sequences, FiniteSets, TLC

VARIABLES
    call,            \* <<arguments>> of the latest calculate_ghost_score call, else <<>>
    ret,             \* <<result>> once calculate_ghost_score has returned, else <<>>
    pc,              \* position of the request in its handler
    entry,           \* the entry point the request came in by
    request,         \* the request body received at the entry point
    analyze_request, \* <<AnalyzeRequest>> once analyze_job has been called, else <<>>
    outcome,         \* producer -> how its task ends (the producers' responses)
    order,           \* the producers in the order their tasks completed
    fault,           \* <<str(e)>> of an exception raised in analyze_job's try block
    response,        \* <<AnalysisResult>> once the handler has returned, else <<>>
    input,           \* <<arguments>> of a call of one analyzer or collaborator, else <<>>
    output           \* <<how that call ended>> once it has ended, else <<>>

vars == <<call, ret, pc, entry, request, analyze_request, outcome, order, fault, response,
          input, output>>

-----------------------------------------------------------------------------
(* schemas.py *)

None == [type |-> "None", message |-> "None", severity |-> "None"]

RedFlag(type, message, severity) ==
    [type |-> type, message |-> message, severity |-> severity]

GhostScore(score, label, color) ==
    [score |-> score, label |-> label, color |-> color]

AnalysisResult(jobUrl, ghostScore, redFlags, analyzedAt, companyName, jobTitle) ==
    [jobUrl |-> jobUrl, ghostScore |-> ghostScore, redFlags |-> redFlags,
     analyzedAt |-> analyzedAt, companyName |-> companyName, jobTitle |-> jobTitle]

JobMetadata(url, title, company, postedDate, rawText, platform) ==
    [url |-> url, title |-> title, company |-> company, postedDate |-> postedDate,
     rawText |-> rawText, platform |-> platform]

Platform == {"linkedin", "indeed", "greenhouse", "lever", "unknown"}

\* datetime.now(timezone.utc).isoformat(): the clock is not modelled
NowIso == "now"

\* how a call or a task ends: it returns a value, or it raises an Exception
Ok(v) == [exc |-> FALSE, value |-> v]
Raised == [exc |-> TRUE, value |-> <<>>]

NoneList == [isNone |-> TRUE, items |-> <<>>]
Some(list) == [isNone |-> FALSE, items |-> list]

-----------------------------------------------------------------------------
(* scoring/ghost_score.py *)

WEIGHT_AGE_OLD == 30
WEIGHT_AGE_MEDIUM == 15
SCORE_CAP == 100
THRESHOLD_GHOST == 70
THRESHOLD_SUSPICIOUS == 40

Max(a, b) == IF a >= b THEN a ELSE b
Min(a, b) == IF a <= b THEN a ELSE b

\* posted dates: absent, the empty string, a string fromisoformat rejects
\* (ValueError), a timestamp without timezone (the subtraction raises
\* TypeError), and an aware timestamp `days` whole days before now.
NonePosted == [kind |-> "None", days |-> 0]
EmptyPosted == [kind |-> "empty", days |-> 0]
BadPosted == [kind |-> "unparseable", days |-> 0]
NaivePosted(d) == [kind |-> "naive", days |-> d]
AwarePosted(d) == [kind |-> "aware", days |-> d]

\* variant: the tiers include their lower limits (>= 60, >= 30)
age_try_inclusive(posted_date) ==
    IF posted_date.kind = "unparseable" THEN [raises |-> "ValueError", value |-> <<0, None>>]
    ELSE IF posted_date.kind = "naive" THEN [raises |-> "TypeError", value |-> <<0, None>>]
    ELSE IF posted_date.days >= 60
         THEN [raises |-> "", value |-> <<30, RedFlag("age", "Posted " \o
                  ToString(posted_date.days) \o
                  " days ago - stale listings often indicate ghost jobs", "high")>>]
    ELSE IF posted_date.days >= 30
         THEN [raises |-> "", value |-> <<15, RedFlag("age", "Posted " \o
                  ToString(posted_date.days) \o " days ago - listing is aging", "medium")>>]
    ELSE [raises |-> "", value |-> <<0, None>>]

\* the try body of _calculate_age_delta and the `return 0, None` after it:
\* the exception raised ("" when none) and the value returned otherwise
age_try(posted_date) ==
    IF posted_date.kind = "unparseable"
    THEN [raises |-> "ValueError", value |-> <<0, None>>]      \* fromisoformat
    ELSE IF posted_date.kind = "naive"
    THEN [raises |-> "TypeError", value |-> <<0, None>>]       \* now - posted
    ELSE LET days_old == posted_date.days IN
         IF days_old > 60 THEN
            [raises |-> "",
             value |-> <<WEIGHT_AGE_OLD,
                         RedFlag("age", "Posted " \o ToString(days_old) \o
                                 " days ago - stale listings often indicate ghost jobs",
                                 "high")>>]
         ELSE IF days_old > 30 THEN
            [raises |-> "",
             value |-> <<WEIGHT_AGE_MEDIUM,
                         RedFlag("age", "Posted " \o ToString(days_old) \o
                                 " days ago - listing is aging",
                                 "medium")>>]
         ELSE [raises |-> "", value |-> <<0, None>>]

\* variant: `except ValueError`
AgeCaughtValueError == {"ValueError"}

\* `except (ValueError, TypeError): pass`
AgeCaught == {"ValueError", "TypeError"}

\* _calculate_age_delta: how the call ends
age_outcome(posted_date) ==
    IF posted_date.kind \in {"None", "empty"} THEN Ok(<<0, None>>)   \* `if not posted_date`
    ELSE LET t == age_try(posted_date) IN
         IF t.raises = "" THEN Ok(t.value)
         ELSE IF t.raises \in AgeCaught THEN Ok(<<0, None>>)
         ELSE Raised

calculate_age_delta(posted_date) == age_outcome(posted_date).value

\* variant: the flag is appended without the `if flag` test
AppendFlagAlways(red_flags, flag) == Append(red_flags, flag)

\* variant: only the flags of high severity are kept
AppendFlagHighOnly(red_flags, flag) ==
    IF flag # None /\ flag.severity = "high" THEN Append(red_flags, flag) ELSE red_flags

\* `if flag: red_flags.append(flag)`
AppendFlag(red_flags, flag) ==
    IF flag # None THEN Append(red_flags, flag) ELSE red_flags

\* variant: the running score is floored at 0 after every extra signal
RECURSIVE AddHeuristicsFloored(_, _)
AddHeuristicsFloored(acc, heuristics) ==
    IF heuristics = <<>> THEN acc
    ELSE LET h_delta == Head(heuristics)[1]
             h_flag == Head(heuristics)[2]
             next == IF acc[1] + h_delta >= 0 THEN acc[1] + h_delta ELSE 0
         IN  AddHeuristicsFloored(
                 <<next, IF h_flag # None THEN Append(acc[2], h_flag) ELSE acc[2]>>,
                 Tail(heuristics))

\* variant: `if h_delta and h_flag`, the flag of a zero-delta signal is skipped
RECURSIVE AddHeuristicsSkipZero(_, _)
AddHeuristicsSkipZero(acc, heuristics) ==
    IF heuristics = <<>> THEN acc
    ELSE LET h_delta == Head(heuristics)[1]
             h_flag == Head(heuristics)[2]
         IN  AddHeuristicsSkipZero(
                 <<acc[1] + h_delta,
                   IF h_delta # 0 /\ h_flag # None THEN Append(acc[2], h_flag) ELSE acc[2]>>,
                 Tail(heuristics))

\* the loop over the heuristics list: acc is <<score, red_flags>>
RECURSIVE AddHeuristics(_, _)
AddHeuristics(acc, heuristics) ==
    IF heuristics = <<>> THEN acc
    ELSE LET h_delta == Head(heuristics)[1]
             h_flag == Head(heuristics)[2]
         IN  AddHeuristics(<<acc[1] + h_delta, AppendFlag(acc[2], h_flag)>>,
                           Tail(heuristics))

\* variant: only the cap is applied
ClampScoreNoFloor(score) == IF score <= 100 THEN score ELSE 100

\* variant: a sum above the cap wraps around
ClampScoreWraps(score) == Max(0, score) % (SCORE_CAP + 1)

\* `score = max(0, min(score, SCORE_CAP))`
ClampScore(score) == Max(0, Min(score, SCORE_CAP))

\* variant: strict comparisons against the thresholds
DeriveLabelStrict(score) ==
    IF score > 70 THEN <<"ghost", "red">>
    ELSE IF score > 40 THEN <<"suspicious", "yellow">>
    ELSE <<"safe", "green">>

DeriveLabel(score) ==
    IF score >= THRESHOLD_GHOST THEN <<"ghost", "red">>
    ELSE IF score >= THRESHOLD_SUSPICIOUS THEN <<"suspicious", "yellow">>
    ELSE <<"safe", "green">>

calculate_ghost_score(metadata, job_url, parity, financial, llm, heuristics) ==
    LET age == calculate_age_delta(metadata.postedDate)
        s1 == 0 + age[1]
        f1 == AppendFlag(<<>>, age[2])
        s2 == s1 + parity[1]
        f2 == AppendFlag(f1, parity[2])
        s3 == s2 + financial[1]
        f3 == AppendFlag(f2, financial[2])
        s4 == s3 + llm[1]
        f4 == AppendFlag(f3, llm[2])
        \* `if heuristics:` is false for None and for the empty list
        acc == IF ~heuristics.isNone /\ heuristics.items # <<>>
               THEN AddHeuristics(<<s4, f4>>, heuristics.items)
               ELSE <<s4, f4>>
        score == ClampScore(acc[1])
        lc == DeriveLabel(score)
    IN  AnalysisResult(job_url, GhostScore(score, lc[1], lc[2]), acc[2], NowIso,
                       metadata.company, metadata.title)

-----------------------------------------------------------------------------
(* The aggregator on its own: calculate_ghost_score applied to inputs drawn *)
(* from bounded sets of well-typed values.                                  *)

\* longest list of extra signals drawn
MaxExtras == 2

FlagParity == RedFlag("parity", "Not found on company careers page", "high")
FlagFinancial == RedFlag("financial", "Recent news: layoffs", "high")
FlagVague == RedFlag("sentiment", "Job title is vague", "medium")

PostedDates ==
    {NonePosted, BadPosted, AwarePosted(10), AwarePosted(45), AwarePosted(90)}

\* scalar signals: delta and flag vary independently; the sentiment signal
\* may carry the same flag value as the parity signal
ParitySignals == {-40, -1, 0, 1, 39, 70, 130} \X {None, FlagParity}
FinancialSignals == {-1, 0, 1, 39} \X {None, FlagFinancial}
SentimentSignals == {-40, 0, 70} \X {None, FlagParity}
ExtraSignals == {<<10, FlagVague>>, <<-40, None>>, <<39, FlagParity>>, <<0, FlagVague>>}

SeqsUpTo(S, n) == UNION {[1..k -> S] : k \in 0..n}

ExtraLists == {NoneList} \cup {Some(l) : l \in SeqsUpTo(ExtraSignals, MaxExtras)}

ScoreMetadata(posted) == JobMetadata("u", "Engineer", "Acme", posted, "text", "unknown")

Call(metadata, job_url, parity, financial, llm, heuristics) ==
    [metadata |-> metadata, job_url |-> job_url, parity |-> parity,
     financial |-> financial, llm |-> llm, heuristics |-> heuristics]

\* the orchestrator at rest: no request received
Idle ==
    /\ pc = "idle"
    /\ entry = "none"
    /\ request = <<>>
    /\ analyze_request = <<>>
    /\ outcome = <<>>
    /\ order = <<>>
    /\ fault = <<>>
    /\ response = <<>>

orchestratorVars == <<pc, entry, request, analyze_request, outcome, order, fault, response>>

InitScore ==
    /\ \E posted \in PostedDates, parity \in ParitySignals,
          financial \in FinancialSignals, llm \in SentimentSignals,
          heuristics \in ExtraLists :
          call = <<Call(ScoreMetadata(posted), "u", parity, financial, llm, heuristics)>>
    /\ ret = <<>>
    /\ Idle
    /\ input = <<>>
    /\ output = <<>>

Score ==
    /\ ret = <<>>
    /\ call # <<>>
    /\ ret' = <<calculate_ghost_score(call[1].metadata, call[1].job_url, call[1].parity,
                                      call[1].financial, call[1].llm, call[1].heuristics)>>
    /\ UNCHANGED <<input, output, call, orchestratorVars>>

NextScore == Score

SpecScore == InitScore /\ [][NextScore]_vars

-----------------------------------------------------------------------------
(* routers/analyze.py and routers/web_analyze.py: the three entry points,  *)
(* the fan-out to six producer tasks, the join and the aggregation.        *)

\* the awaitables in the order they are passed to asyncio.gather
Producers == <<"parity", "financial", "llm", "heuristic", "company", "llm_deep">>

ProducerSet == {Producers[i] : i \in 1..Len(Producers)}

FlagLlm == RedFlag("sentiment", "AI analysis: JD is 90% boilerplate", "high")
FlagBoiler == RedFlag("sentiment", "Job description contains 7 generic buzzword phrases", "high")
FlagStaffing == RedFlag("company", "'Acme' appears to be a staffing agency", "high")
FlagLegit == RedFlag("sentiment", "AI legitimacy assessment: 10/100", "high")
FlagDetected == RedFlag("sentiment", "AI detected: no deliverables mentioned", "high")

\* values the producers return (parity_check.py:155,161; financial_health.py:69;
\* llm_analysis.py:104-119,174-215; heuristic_analysis.py:350,363; company_intel.py:184)
ParityOutcomes == {Ok(<<25, FlagParity>>), Ok(<<-10, None>>), Raised}
FinancialOutcomes == {Ok(<<25, FlagFinancial>>), Raised}
LlmOutcomes == {Ok(<<20, FlagLlm>>), Raised}
HeuristicOutcomes == {Ok(<< <<10, FlagVague>>, <<15, FlagBoiler>> >>), Raised}
CompanyOutcomes == {Ok(<< <<12, FlagStaffing>> >>), Raised}
DeepOutcomes == {Ok(<< <<20, FlagLegit>>, <<8, FlagDetected>> >>), Raised}

Outcomes ==
    {[p \in ProducerSet |->
        CASE p = "parity" -> a
          [] p = "financial" -> b
          [] p = "llm" -> c
          [] p = "heuristic" -> d
          [] p = "company" -> e
          [] OTHER -> f] :
     a \in ParityOutcomes, b \in FinancialOutcomes, c \in LlmOutcomes,
     d \in HeuristicOutcomes, e \in CompanyOutcomes, f \in DeepOutcomes}

AnalyzeRequest(url, metadata) == [url |-> url, metadata |-> metadata]

\* asyncio.gather(..., return_exceptions=True): one result per awaitable, in
\* the order of the awaitables, an exception standing in for a failed task
Gather(outc) == [i \in 1..Len(Producers) |-> outc[Producers[i]]]

IsException(x) == x.exc

\* variant: a failed scalar producer counts as a careers-page miss
ScalarFailAsHit(x) == IF ~x.exc THEN x.value ELSE <<25, FlagParity>>

\* `x if not isinstance(x, Exception) else (0, None)`
ScalarOrNeutral(x) == IF ~IsException(x) THEN x.value ELSE <<0, None>>

\* `if not isinstance(x, Exception) and x: all_extra_signals.extend(x)`
ExtendIfOk(all_extra_signals, x) ==
    IF ~IsException(x) /\ x.value # <<>>
    THEN all_extra_signals \o x.value
    ELSE all_extra_signals

RECURSIVE ExtendInOrder(_, _, _)
ExtendInOrder(all_extra_signals, byName, names) ==
    IF names = <<>> THEN all_extra_signals
    ELSE ExtendInOrder(
            IF Head(names) \in DOMAIN byName
            THEN ExtendIfOk(all_extra_signals, byName[Head(names)])
            ELSE all_extra_signals,
            byName, Tail(names))

\* variant: the lists are merged as their tasks complete
MergeExtrasArrival(heuristic_results, company_results, llm_deep_results) ==
    ExtendInOrder(<<>>,
                  [n \in {"heuristic", "company", "llm_deep"} |->
                      CASE n = "heuristic" -> heuristic_results
                        [] n = "company" -> company_results
                        [] OTHER -> llm_deep_results],
                  order)

MergeExtras(heuristic_results, company_results, llm_deep_results) ==
    ExtendIfOk(ExtendIfOk(ExtendIfOk(<<>>, heuristic_results), company_results),
               llm_deep_results)

\* the arguments analyze_job passes to calculate_ghost_score
AggregateCall(req, results) ==
    LET all_extra_signals == MergeExtras(results[4], results[5], results[6]) IN
    Call(req.metadata, req.url,
         ScalarOrNeutral(results[1]), ScalarOrNeutral(results[2]),
         ScalarOrNeutral(results[3]),
         IF all_extra_signals # <<>> THEN Some(all_extra_signals) ELSE NoneList)

\* variant: the error flag is reported with high severity
AnalysisErrorResultHigh(req, e) ==
    AnalysisResult(req.url, GhostScore(0, "safe", "green"),
                   <<RedFlag("parity", "Analysis error: " \o e, "high")>>,
                   NowIso, req.metadata.company, req.metadata.title)

\* the `except Exception as e` branch of analyze_job
AnalysisErrorResult(req, e) ==
    AnalysisResult(req.url, GhostScore(0, "safe", "green"),
                   <<RedFlag("parity", "Analysis error: " \o e, "low")>>,
                   NowIso, req.metadata.company, req.metadata.title)

\* an exception of scrape_job_page: str(e), its length and str(e)[:200]
ScrapeError(str, len, first200) == [str |-> str, len |-> len, first200 |-> first200]

\* variant: the error text is not cut at 200 characters
ErrorMsgWhole(e) == e.str

\* `error_msg = str(e)[:200]`
ErrorMsg(e) == IF e.len <= 200 THEN e.str ELSE e.first200

\* variant: a failed scrape is labelled suspicious
ScrapeFailedResultSuspicious(url, error_msg) ==
    AnalysisResult(url, GhostScore(0, "suspicious", "yellow"),
                   <<RedFlag("parity", "Scrape failed: " \o error_msg, "low")>>,
                   NowIso, "", "Scrape failed - try manual mode")

\* the `except Exception as e` branch of scrape_and_analyze
ScrapeFailedResult(url, error_msg) ==
    AnalysisResult(url, GhostScore(0, "safe", "green"),
                   <<RedFlag("parity", "Scrape failed: " \o error_msg, "low")>>,
                   NowIso, "", "Scrape failed - try manual mode")

\* scraper.py detect_platform, on the urls of the model
detect_platform(url) ==
    CASE url = "https://www.linkedin.com/jobs/view/1" -> "linkedin"
      [] url = "https://jobs.lever.co/acme/3" -> "lever"
      [] OTHER -> "unknown"

(* requests and collaborator responses *)

AnalyzeRequests ==
    {AnalyzeRequest("https://jobs.lever.co/acme/3",
                    JobMetadata("https://jobs.lever.co/acme/3", "Engineer", "Acme",
                                AwarePosted(90), "We are hiring", "lever"))}

ScrapeAndAnalyzeRequests == {[url |-> "https://www.linkedin.com/jobs/view/1"]}

ManualAnalyzeRequests ==
    {[url |-> "https://example.com/jobs/2", title |-> "Analyst", company |-> "Initech",
      rawText |-> "Pasted text", postedDate |-> NonePosted, platform |-> p] :
     p \in {"unknown", "glassdoor"}}

\* what scrape_job_page extracts from the page at url
ScrapedMetadata(url) ==
    {JobMetadata(url, "Data Engineer", "Globex", AwarePosted(45), "Scraped text",
                 detect_platform(url))}

ScrapeErrors ==
    {ScrapeError("Failed to fetch page (HTTP 404)", 31, "Failed to fetch page (HTTP 404)"),
     ScrapeError("Timeout 30000ms exceeded ... (long call log)", 250,
                 "Timeout 30000ms exceeded ...")}

\* str(e) of an exception raised inside the try block of analyze_job
AnalysisErrors == {"out of memory"}

Init ==
    /\ call = <<>>
    /\ ret = <<>>
    /\ Idle
    /\ input = <<>>
    /\ output = <<>>

\* POST /analyze
ReceiveAnalyze ==
    /\ pc = "idle"
    /\ \E req \in AnalyzeRequests :
          /\ request' = req
          /\ analyze_request' = <<req>>
    /\ entry' = "analyze"
    /\ pc' = "analyze_job"
    /\ UNCHANGED <<input, output, call, ret, outcome, order, fault, response>>

\* POST /web/scrape-and-analyze, up to `await scrape_job_page(request.url)`
ReceiveScrape ==
    /\ pc = "idle"
    /\ \E req \in ScrapeAndAnalyzeRequests : request' = req
    /\ entry' = "scrape"
    /\ pc' = "scrape_job_page"
    /\ UNCHANGED <<input, output, call, ret, analyze_request, outcome, order, fault, response>>

\* scrape_job_page returns: the handler calls analyze_job
ScrapeReturns ==
    /\ pc = "scrape_job_page"
    /\ \E metadata \in ScrapedMetadata(request.url) :
          analyze_request' = <<AnalyzeRequest(request.url, metadata)>>
    /\ pc' = "analyze_job"
    /\ UNCHANGED <<input, output, call, ret, entry, request, outcome, order, fault, response>>

\* variant: after a failed scrape the handler goes on to analyze_job with
\* an empty posting
ScrapeRaisesThenAnalyzes ==
    /\ pc = "scrape_job_page"
    /\ \E e \in ScrapeErrors :
          analyze_request' =
              <<AnalyzeRequest(request.url,
                               JobMetadata(request.url, "", "", NonePosted, "", "unknown"))>>
    /\ pc' = "analyze_job"
    /\ UNCHANGED <<input, output, call, ret, entry, request, outcome, order, fault, response>>

\* scrape_job_page raises: the handler returns the scrape-failed result
ScrapeRaises ==
    /\ pc = "scrape_job_page"
    /\ \E e \in ScrapeErrors :
          response' = <<ScrapeFailedResult(request.url, ErrorMsg(e))>>
    /\ pc' = "done"
    /\ UNCHANGED <<input, output, call, ret, entry, request, analyze_request, outcome, order, fault>>

\* POST /web/manual-analyze: JobMetadata(...) validates platform
ManualAnalyze ==
    /\ pc = "idle"
    /\ \E req \in ManualAnalyzeRequests :
          /\ req.platform \in Platform
          /\ request' = req
          /\ analyze_request' =
                <<AnalyzeRequest(req.url,
                                 JobMetadata(req.url, req.title, req.company,
                                             req.postedDate, req.rawText, req.platform))>>
    /\ entry' = "manual"
    /\ pc' = "analyze_job"
    /\ UNCHANGED <<input, output, call, ret, outcome, order, fault, response>>

\* POST /web/manual-analyze with a platform outside the Literal of
\* JobMetadata.platform: the constructor raises ValidationError, which
\* nothing in manual_analyze catches
ManualAnalyzeInvalid ==
    /\ pc = "idle"
    /\ \E req \in ManualAnalyzeRequests :
          /\ req.platform \notin Platform
          /\ request' = req
    /\ entry' = "manual"
    /\ pc' = "raised"
    /\ UNCHANGED <<input, output, call, ret, analyze_request, outcome, order, fault, response>>

\* analyze_job up to the await of asyncio.gather: the six tasks are started
FanOut ==
    /\ pc = "analyze_job"
    /\ outcome' \in Outcomes
    /\ order' = <<>>
    /\ pc' = "gather"
    /\ UNCHANGED <<input, output, call, ret, entry, request, analyze_request, fault, response>>

\* the task of producer p finishes, by returning or by raising
Complete(p) ==
    /\ pc = "gather"
    /\ \A i \in 1..Len(order) : order[i] # p
    /\ order' = Append(order, p)
    /\ UNCHANGED <<input, output, call, ret, pc, entry, request, analyze_request, outcome, fault, response>>

\* variant: the join returns when the first task has finished
AllDoneFirstCompleted == Len(order) >= 1

\* asyncio.gather returns when every awaitable has finished
AllDone == Len(order) = Len(Producers)

\* all six tasks have finished: gather returns, the signals are merged and
\* aggregated, and the result is returned
Aggregate ==
    /\ pc = "gather"
    /\ AllDone
    /\ LET c == AggregateCall(analyze_request[1], Gather(outcome))
           result == calculate_ghost_score(c.metadata, c.job_url, c.parity, c.financial,
                                           c.llm, c.heuristics)
       IN  /\ call' = <<c>>
           /\ ret' = <<result>>
           /\ response' = <<result>>
    /\ pc' = "done"
    /\ UNCHANGED <<input, output, entry, request, analyze_request, outcome, order, fault>>

\* an Exception is raised in the try block during the aggregation (the
\* aggregator does not return): the handler returns the degraded result
AggregateRaises ==
    /\ pc = "gather"
    /\ AllDone
    /\ \E e \in AnalysisErrors :
          /\ fault' = <<e>>
          /\ response' = <<AnalysisErrorResult(analyze_request[1], e)>>
    /\ call' = <<AggregateCall(analyze_request[1], Gather(outcome))>>
    /\ pc' = "done"
    /\ UNCHANGED <<input, output, ret, entry, request, analyze_request, outcome, order>>

Next ==
    \/ ReceiveAnalyze
    \/ ReceiveScrape
    \/ ScrapeReturns
    \/ ScrapeRaises
    \/ ManualAnalyze
    \/ ManualAnalyzeInvalid
    \/ FanOut
    \/ \E p \in ProducerSet : Complete(p)
    \/ Aggregate
    \/ AggregateRaises

Spec == Init /\ [][Next]_vars

-----------------------------------------------------------------------------
(* Claims about the aggregator, checked under SpecScore. *)

RECURSIVE SumDeltas(_)
SumDeltas(signals) ==
    IF signals = <<>> THEN 0 ELSE Head(signals)[1] + SumDeltas(Tail(signals))

\* the input signals of a call in canonical order: age, parity, financial,
\* sentiment, then the extra signals in list order
InputSignals(c) ==
    <<calculate_age_delta(c.metadata.postedDate), c.parity, c.financial, c.llm>>
        \o c.heuristics.items

RawSum(c) == SumDeltas(InputSignals(c))

Returned == call # <<>> /\ ret # <<>>

\* C1: for every posting date, every parity, financial and sentiment signal
\* and every list of extra signals, the returned score is within 0..100.
C1_ScoreWithinBounds ==
    Returned => ret[1].ghostScore.score >= 0 /\ ret[1].ghostScore.score <= 100

C1_Witness == Returned /\ RawSum(call[1]) < 0 /\ ret[1].ghostScore.score = 0

\* C2: the returned score is max(0, min(100, S)), S the sum of the age,
\* parity, financial, sentiment and extra deltas; the clamp is applied once,
\* after the whole sum.
C2_ScoreIsClampedSum ==
    Returned =>
        LET S == RawSum(call[1]) IN
        ret[1].ghostScore.score = (IF S < 0 THEN 0 ELSE IF S > 100 THEN 100 ELSE S)

\* a negative first extra signal takes the running sum below 0 and a later
\* positive one brings the total back into 1..99
C2_Witness ==
    /\ Returned
    /\ Len(call[1].heuristics.items) >= 2
    /\ SumDeltas(SubSeq(InputSignals(call[1]), 1, 5)) < 0
    /\ RawSum(call[1]) \in 1..99
    /\ ret[1].ghostScore.score = RawSum(call[1])

\* C3: label and color are a total function of the clamped score: >= 70
\* ghost/red, 40..69 suspicious/yellow, <= 39 safe/green.
C3_LabelFromScore ==
    Returned =>
        LET g == ret[1].ghostScore IN
        /\ g.score >= 70 => g.label = "ghost" /\ g.color = "red"
        /\ g.score >= 40 /\ g.score <= 69 => g.label = "suspicious" /\ g.color = "yellow"
        /\ g.score <= 39 => g.label = "safe" /\ g.color = "green"

C3_Witness ==
    Returned /\ ret[1].ghostScore.score = 70 /\ ret[1].ghostScore.label = "ghost"

AllNeutral(c) ==
    /\ calculate_age_delta(c.metadata.postedDate) = <<0, None>>
    /\ c.parity = <<0, None>>
    /\ c.financial = <<0, None>>
    /\ c.llm = <<0, None>>
    /\ c.heuristics.items = <<>>

\* C5: calculate_ghost_score returns for every well-typed input, an absent
\* or empty extra-signal list included; with all signals (0, none) and no
\* extras the result is score 0, safe, green, with no red flag.
C5_TotalAndNeutral ==
    /\ call # <<>> /\ ret = <<>> =>
          LET c == call[1]
              r == calculate_ghost_score(c.metadata, c.job_url, c.parity, c.financial,
                                         c.llm, c.heuristics)
          IN  /\ r.ghostScore.label \in {"safe", "suspicious", "ghost"}
              /\ Len(r.redFlags) <= Len(InputSignals(c))
    /\ Returned /\ AllNeutral(call[1]) =>
          /\ ret[1].ghostScore = GhostScore(0, "safe", "green")
          /\ ret[1].redFlags = <<>>

C5_Witness ==
    Returned /\ AllNeutral(call[1]) /\ call[1].heuristics.isNone /\ ret[1].redFlags = <<>>

RECURSIVE PresentFlags(_)
PresentFlags(signals) ==
    IF signals = <<>> THEN <<>>
    ELSE (IF Head(signals)[2] = None THEN <<>> ELSE <<Head(signals)[2]>>)
            \o PresentFlags(Tail(signals))

\* C6: redFlags holds every non-absent input flag exactly once, in the order
\* age, parity, financial, sentiment, then the extra signals in list order;
\* a signal without a flag adds its delta and no flag.
C6_FlagsCanonical ==
    Returned => ret[1].redFlags = PresentFlags(InputSignals(call[1]))

C6_Witness ==
    /\ Returned
    /\ Len(ret[1].redFlags) = 5
    /\ \E i \in 1..Len(call[1].heuristics.items) :
          call[1].heuristics.items[i][2] = None /\ call[1].heuristics.items[i][1] # 0

-----------------------------------------------------------------------------
(* Claims about the request handlers, checked under Spec. *)

Done == pc = "done" /\ response # <<>>

\* analyze_job returned without entering its except branch
Analyzed == Done /\ analyze_request # <<>> /\ fault = <<>>

\* the threshold classification of a score
Classified(g) ==
    \/ g.score >= 70 /\ g.label = "ghost" /\ g.color = "red"
    \/ g.score >= 40 /\ g.score < 70 /\ g.label = "suspicious" /\ g.color = "yellow"
    \/ g.score < 40 /\ g.label = "safe" /\ g.color = "green"

\* C4: every AnalysisResult returned by any path (aggregation, the
\* analysis-error fallback, the scrape-failure result) has the label and
\* color that the thresholds give its score.
C4_EveryPathClassified ==
    response # <<>> => Classified(response[1].ghostScore)

\* the fallback is returned although the gathered signals sum to a ghost score
C4_Witness ==
    /\ Done
    /\ fault # <<>>
    /\ RawSum(call[1]) >= 70
    /\ response[1].ghostScore = GhostScore(0, "safe", "green")

\* the signal of a scalar producer and the signals of a list producer as the
\* aggregation is to see them: neutral or empty when the task failed
SignalOf(p) == IF outcome[p].exc THEN <<0, None>> ELSE outcome[p].value
SignalsOf(p) == IF outcome[p].exc THEN <<>> ELSE outcome[p].value

CanonicalSignals ==
    <<calculate_age_delta(analyze_request[1].metadata.postedDate),
      SignalOf("parity"), SignalOf("financial"), SignalOf("llm")>>
        \o SignalsOf("heuristic") \o SignalsOf("company") \o SignalsOf("llm_deep")

\* C7: for a fixed request and fixed producer responses the result is the
\* same for every completion order of the six tasks; redFlags is in the
\* order age, parity, financial, sentiment, heuristic, company, deep LLM.
C7_CompletionOrderIrrelevant ==
    Analyzed =>
        LET S == SumDeltas(CanonicalSignals)
            g == response[1].ghostScore
        IN  /\ g.score = (IF S < 0 THEN 0 ELSE IF S > 100 THEN 100 ELSE S)
            /\ Classified(g)
            /\ response[1].redFlags = PresentFlags(CanonicalSignals)

\* all six tasks returned flags, and completed in the reverse of the
\* canonical order
C7_Witness ==
    /\ Analyzed
    /\ order = <<"llm_deep", "company", "heuristic", "llm", "financial", "parity">>
    /\ Len(response[1].redFlags) = 9
    /\ response[1].redFlags[1].type = "age"
    /\ response[1].redFlags[9] = FlagDetected

\* C8: for every subset of failed producers, a failed scalar producer is
\* passed on as (0, none) and a failed list producer as the empty list, the
\* result is the aggregation of the age signal and the signals of the
\* producers that did not fail, and it is never the analysis-error fallback.
C8_FailedProducersNeutral ==
    Analyzed =>
        /\ call # <<>>
        /\ \A i \in 1..3 :
              LET p == Producers[i]
                  arg == <<call[1].parity, call[1].financial, call[1].llm>>[i]
              IN  arg = (IF outcome[p].exc THEN <<0, None>> ELSE outcome[p].value)
        /\ call[1].heuristics.items =
              SignalsOf("heuristic") \o SignalsOf("company") \o SignalsOf("llm_deep")
        /\ call[1].metadata = analyze_request[1].metadata
        /\ ret # <<>>
        /\ response = ret
        /\ response[1].redFlags = PresentFlags(InputSignals(call[1]))
        /\ LET S == RawSum(call[1]) IN
           response[1].ghostScore.score = (IF S < 0 THEN 0 ELSE IF S > 100 THEN 100 ELSE S)
        /\ \A i \in 1..Len(response[1].redFlags) :
              response[1].redFlags[i].message # "Analysis error: " \o "out of memory"

\* a scalar and a list producer failed; the signals of the others are kept
C8_Witness ==
    /\ Analyzed
    /\ outcome["parity"].exc /\ outcome["heuristic"].exc
    /\ ~outcome["financial"].exc /\ ~outcome["llm"].exc
    /\ ~outcome["company"].exc /\ ~outcome["llm_deep"].exc
    /\ response[1].redFlags =
          <<RedFlag("age", "Posted 90 days ago - stale listings often indicate ghost jobs",
                    "high"),
            FlagFinancial, FlagLlm, FlagStaffing, FlagLegit, FlagDetected>>
    /\ response[1].ghostScore.score = 100

\* C9: when the aggregation raises, analyze_job returns the degraded result:
\* score 0, safe, green, one flag of severity low whose message carries the
\* error description, and jobUrl, companyName, jobTitle of the request.
C9_DegradedOnAggregationError ==
    pc = "done" /\ fault # <<>> =>
        /\ response # <<>>
        /\ response[1].ghostScore = GhostScore(0, "safe", "green")
        /\ Len(response[1].redFlags) = 1
        /\ response[1].redFlags[1].severity = "low"
        /\ response[1].redFlags[1].message = "Analysis error: " \o fault[1]
        /\ response[1].jobUrl = analyze_request[1].url
        /\ response[1].companyName = analyze_request[1].metadata.company
        /\ response[1].jobTitle = analyze_request[1].metadata.title

\* the aggregation of a scraped posting raises after all six tasks returned
C9_Witness ==
    /\ Done
    /\ fault # <<>>
    /\ entry = "scrape"
    /\ \A p \in ProducerSet : ~outcome[p].exc
    /\ response[1].companyName = "Globex"
    /\ response[1].jobUrl = request.url

ScoreLabel == {"safe", "suspicious", "ghost"}
ScoreColor == {"green", "yellow", "red"}
FlagType == {"age", "parity", "sentiment", "financial", "company", "compensation",
             "structure"}
Severity == {"low", "medium", "high"}

\* an AnalysisResult that passes the validation of schemas.py
ValidResult(r) ==
    /\ r.ghostScore.score \in Int
    /\ r.ghostScore.label \in ScoreLabel
    /\ r.ghostScore.color \in ScoreColor
    /\ \A i \in 1..Len(r.redFlags) :
          r.redFlags[i].type \in FlagType /\ r.redFlags[i].severity \in Severity

\* C10: every request accepted at one of the three entry points ends with a
\* structurally valid AnalysisResult; no error ends it without one.
C10_AlwaysAResult ==
    pc \in {"done", "raised"} => response # <<>> /\ ValidResult(response[1])

\* the scrape failed: the handler ended without calling analyze_job
ScrapeFailed == entry = "scrape" /\ pc \in {"done", "raised"} /\ analyze_request = <<>>

\* C11: when the scraper fails, scrape_and_analyze does not propagate the
\* error: it returns score 0, safe, an empty companyName, one low-severity
\* flag whose message carries the scrape error cut at 200 characters, and a
\* job title that directs the caller to manual mode.
C11_ScrapeFailureResult ==
    ScrapeFailed =>
        /\ pc = "done"
        /\ response # <<>>
        /\ response[1].ghostScore.score = 0
        /\ response[1].ghostScore.label = "safe"
        /\ response[1].companyName = ""
        /\ response[1].jobUrl = request.url
        /\ response[1].jobTitle = "Scrape failed - try manual mode"
        /\ Len(response[1].redFlags) = 1
        /\ response[1].redFlags[1].severity = "low"
        /\ \E e \in ScrapeErrors :
              response[1].redFlags[1].message =
                  "Scrape failed: " \o (IF e.len > 200 THEN e.first200 ELSE e.str)

\* the scraper failed with an error text longer than 200 characters
C11_Witness ==
    /\ ScrapeFailed
    /\ response # <<>>
    /\ response[1].redFlags[1].message = "Scrape failed: Timeout 30000ms exceeded ..."
    /\ outcome = <<>>

\* C12: the aggregator is invoked only after all six producer tasks have
\* finished, a failing producer neither cancels the others nor makes the
\* handler return early, and a request yields exactly one AnalysisResult:
\* once returned it does not change.
C12_JoinBeforeAggregate ==
    /\ [](call # <<>> =>
            /\ Len(order) = 6
            /\ \A p \in ProducerSet : \E i \in 1..6 : order[i] = p)
    /\ [](pc = "gather" => response = <<>> /\ call = <<>>)
    /\ [][response # <<>> => response' = response]_vars

\* the first task to finish failed; the other five finished after it and the
\* aggregated result was returned
C12_Witness ==
    /\ Analyzed
    /\ outcome[order[1]].exc
    /\ \A i \in 2..6 : ~outcome[order[i]].exc
    /\ Len(response[1].redFlags) >= 5

-----------------------------------------------------------------------------
(* The age signal on its own: _calculate_age_delta applied to posted dates. *)

\* largest age, and largest distance into the future, of a posted date in days
MaxAgeDays == 100

AgeInputs ==
    {NonePosted, EmptyPosted, BadPosted}
        \cup {NaivePosted(d) : d \in -MaxAgeDays..MaxAgeDays}
        \cup {AwarePosted(d) : d \in -MaxAgeDays..MaxAgeDays}

InitAge ==
    /\ input \in {<<p>> : p \in AgeInputs}
    /\ output = <<>>
    /\ call = <<>>
    /\ ret = <<>>
    /\ Idle

AgeCall ==
    /\ input # <<>>
    /\ output = <<>>
    /\ output' = <<age_outcome(input[1])>>
    /\ UNCHANGED <<input, call, ret, orchestratorVars>>

SpecAge == InitAge /\ [][AgeCall]_vars

C15_BadDateNeutral ==
    output # <<>> /\ input[1].kind \in {"None", "empty", "unparseable", "naive"} =>
        output[1] = [exc |-> FALSE, value |-> <<0, None>>]

\* a timestamp without timezone, 90 days back: the TypeError is caught
C15_Witness ==
    /\ output # <<>>
    /\ input[1] = NaivePosted(90)
    /\ ~output[1].exc
    /\ output[1].value = <<0, None>>

-----------------------------------------------------------------------------
(* services/company_intel.py.  A text is represented by what the scans of
   the analyzer find in it, a title by the keywords it contains, and
   NewsAPI by the key in the environment and the answers to the two GETs. *)

WEIGHT_NO_WEB_PRESENCE == 15
WEIGHT_STAFFING_AGENCY == 12
WEIGHT_CONTROVERSIAL_MODEL == 10
WEIGHT_TINY_COMPANY_BIG_HIRE == 8
WEIGHT_HIGH_TURNOVER_SIGNALS == 10
WEIGHT_CONTRACT_TO_HIRE == 5

\* the keywords of the analyzers' lists that the lower-cased title contains
TitleKeywords(title) ==
    CASE title = "Senior Associate" -> {"associate"}
      [] title = "Junior Developer" -> {"junior"}
      [] title = "Director of Data" -> {"director", "cto"}
      [] OTHER -> {}

\* `firm in company_lower` for some firm of KNOWN_STAFFING_FIRMS
KnownStaffingFirm(company) == company \in {"Robert Half"}

\* what the scans of company_intel find in raw_text
CompanyText(staffing_hits, client_pattern, freelance, turnover, tiny, cth) ==
    [staffing_hits |-> staffing_hits, client_pattern |-> client_pattern,
     freelance |-> freelance, turnover |-> turnover, tiny |-> tiny, cth |-> cth]

\* variant: only the list of known firms is looked at
is_staffing_agency_known_only(company, raw_text) == KnownStaffingFirm(company)

is_staffing_agency(company, raw_text) ==
    \/ KnownStaffingFirm(company)
    \/ raw_text.staffing_hits >= 2
    \/ raw_text.client_pattern

\* an answer of `client.get`: an exception (timeout, connection error), or
\* a response with its status code, whether its body is JSON, and the
\* totalResults and article titles of that body
HttpRaises ==
    [raises |-> TRUE, status |-> 0, json |-> FALSE, totalResults |-> 0, titles |-> <<>>]
HttpResponse(status, totalResults, titles) ==
    [raises |-> FALSE, status |-> status, json |-> TRUE,
     totalResults |-> totalResults, titles |-> titles]
\* a response with status 200 whose body `response.json()` cannot decode
HttpMalformed ==
    [raises |-> FALSE, status |-> 200, json |-> FALSE, totalResults |-> 0, titles |-> <<>>]

\* a headline: its text, its length, and its first 120 characters
Headline(str, len, first120) == [str |-> str, len |-> len, first120 |-> first120]
NoHeadline == Headline("", 0, "")

NewsInfo(article_count, has_controversy, controversy_headline) ==
    [article_count |-> article_count, has_controversy |-> has_controversy,
     controversy_headline |-> controversy_headline]

\* variant: every failure of the search yields the sentinel -1
search_company_info_sentinel(api_key, first, second) ==
    IF api_key \in {"None", "", "your_key_here"} \/ first.raises \/ first.status # 200
           \/ ~first.json
    THEN NewsInfo(-1, FALSE, NoHeadline)
    ELSE NewsInfo(first.totalResults,
                  ~second.raises /\ second.status = 200 /\ second.totalResults > 0
                      /\ second.titles # <<>>,
                  IF ~second.raises /\ second.status = 200 /\ second.totalResults > 0
                      /\ second.titles # <<>>
                  THEN second.titles[1] ELSE NoHeadline)

\* _search_company_info: `results` is updated in place, so what was stored
\* before an exception stays in the dict that is returned
search_company_info(api_key, first, second) ==
    IF api_key \in {"None", "", "your_key_here"}
    THEN NewsInfo(-1, FALSE, NoHeadline)
    ELSE LET results == NewsInfo(0, FALSE, NoHeadline) IN
         IF first.raises \/ (first.status = 200 /\ ~first.json) THEN results
         ELSE LET r1 == IF first.status = 200
                        THEN [results EXCEPT !.article_count = first.totalResults]
                        ELSE results
              IN  IF second.raises \/ (second.status = 200 /\ ~second.json) THEN r1
                  ELSE IF second.status = 200 /\ second.totalResults > 0
                          /\ second.titles # <<>>
                       THEN [r1 EXCEPT !.has_controversy = TRUE,
                                       !.controversy_headline = second.titles[1]]
                       ELSE r1

NoPresenceFlag(company) ==
    RedFlag("company",
            "No news coverage found for '" \o company \o
                "' - company may be too new, too small, or fictitious",
            "medium")

\* company_intel, with the answer of _search_company_info as news_info
company_intel(company, raw_text, title, news_info) ==
    IF company = "" THEN <<>>
    ELSE
      (IF is_staffing_agency(company, raw_text)
       THEN << <<WEIGHT_STAFFING_AGENCY,
                 RedFlag("company", "'" \o company \o
                    "' appears to be a staffing agency or outsourcing firm - the actual employer is hidden",
                    "high")>> >>
       ELSE <<>>)
      \o
      (IF raw_text.freelance >= 3
       THEN << <<WEIGHT_CONTROVERSIAL_MODEL,
                 RedFlag("company", "Role has " \o ToString(raw_text.freelance) \o
                    " signals of freelance/contractor classification - may not be a real employee position",
                    "high")>> >>
       ELSE IF raw_text.freelance >= 1
       THEN << <<WEIGHT_CONTROVERSIAL_MODEL \div 2,
                 RedFlag("company",
                    "Role mentions freelance or independent contractor terms - verify employment classification",
                    "medium")>> >>
       ELSE <<>>)
      \o
      (IF raw_text.turnover >= 3
       THEN << <<WEIGHT_HIGH_TURNOVER_SIGNALS,
                 RedFlag("company", "Job posting contains " \o ToString(raw_text.turnover) \o
                    " high-turnover culture signals (hustle culture, always-on expectations)",
                    "medium")>> >>
       ELSE <<>>)
      \o
      (IF news_info.article_count = 0
       THEN << <<WEIGHT_NO_WEB_PRESENCE, NoPresenceFlag(company)>> >>
       ELSE <<>>)
      \o
      (IF news_info.has_controversy
       THEN LET headline == news_info.controversy_headline IN
            << <<WEIGHT_CONTROVERSIAL_MODEL,
                 RedFlag("company", "Company linked to controversy: " \o
                    (IF headline.len > 120 THEN headline.first120 ELSE headline.str),
                    "high")>> >>
       ELSE <<>>)
      \o
      (IF TitleKeywords(title) \cap {"vp", "vice president", "director", "head of",
                                     "chief", "c-suite", "cto", "cfo", "coo"} # {}
          /\ raw_text.tiny >= 2
       THEN << <<WEIGHT_TINY_COMPANY_BIG_HIRE,
                 RedFlag("structure",
                    "Senior leadership role at a very early-stage company - role may be aspirational rather than an active hire",
                    "medium")>> >>
       ELSE <<>>)
      \o
      (IF raw_text.cth
       THEN << <<WEIGHT_CONTRACT_TO_HIRE,
                 RedFlag("structure",
                    "Contract-to-hire arrangement - conversion is not guaranteed and companies often cycle contractors without hiring",
                    "low")>> >>
       ELSE <<>>)

\* largest number of keywords of one list (freelance, turnover) found in a text
MaxHits == 3

CompanyTexts ==
    {CompanyText(s, c, f, t, y, h) :
        s \in 0..2, c \in BOOLEAN, f \in 0..MaxHits, t \in 0..MaxHits,
        y \in {0, 2}, h \in BOOLEAN}

Headlines ==
    {Headline("Acme sued over fake listings", 28, "Acme sued over fake listings"),
     Headline("Acme under investigation ... (long headline)", 150,
              "Acme under investigation ...")}

\* NEWS_API_KEY and the answers of NewsAPI to the two requests
NewsEnvs ==
    {<<k, HttpRaises, HttpRaises>> : k \in {"None", "your_key_here"}}
    \cup
    ({"k3y"} \X {HttpRaises, HttpResponse(429, 0, <<>>), HttpMalformed,
                 HttpResponse(200, 0, <<>>), HttpResponse(200, 5, <<>>)}
             \X ({HttpRaises, HttpResponse(500, 0, <<>>), HttpResponse(200, 0, <<>>)}
                 \cup {HttpResponse(200, 1, <<h>>) : h \in Headlines}))

InitCompany ==
    /\ input \in {"", "Acme", "Robert Half"} \X CompanyTexts
                    \X {"Analyst", "Director of Data"} \X NewsEnvs
    /\ output = <<>>
    /\ call = <<>>
    /\ ret = <<>>
    /\ Idle

CompanyCall ==
    /\ input # <<>>
    /\ output = <<>>
    /\ LET env == input[4] IN
       output' = <<Ok(company_intel(input[1], input[2], input[3],
                                    search_company_info(env[1], env[2], env[3])))>>
    /\ UNCHANGED <<input, call, ret, orchestratorVars>>

SpecCompany == InitCompany /\ [][CompanyCall]_vars

\* the research was obtained: a key is set and the first request was answered
\* with status 200 and a JSON body
ResearchObtained(env) ==
    /\ env[1] \notin {"None", "", "your_key_here"}
    /\ ~env[2].raises
    /\ env[2].status = 200
    /\ env[2].json

NoPresenceEmitted ==
    /\ output # <<>>
    /\ \E i \in 1..Len(output[1].value) :
          output[1].value[i] = <<15, NoPresenceFlag(input[1])>>

\* C13: the company analyzer emits the no-web-presence signal (+15, medium)
\* only when the research was obtained and reported zero articles; with
\* missing credentials, a network error, a timeout or a non-success
\* response the rule is suppressed.
C13_NoPresenceOnlyWhenChecked ==
    NoPresenceEmitted =>
        /\ ResearchObtained(input[4])
        /\ input[4][2].totalResults = 0

-----------------------------------------------------------------------------
(* The external collaborators: services/parity_check.py,
   services/financial_health.py, services/llm_analysis.py.  Each is a
   function of its arguments and of what its environment answers; the
   body of its try block either returns a value or raises. *)

WEIGHT_PARITY_FAIL == 25
WEIGHT_PARITY_PASS == -10
WEIGHT_FINANCIAL_LAYOFFS == 25
WEIGHT_SENTIMENT_MAX == 20
WEIGHT_SENTIMENT_MED == 10

Returns(v) == [raises |-> "", value |-> v]
Raises(e) == [raises |-> e, value |-> <<>>]

\* variant: only `except json.JSONDecodeError`
ExceptionClassesJson == {"JSONDecodeError"}

\* the classes of the exceptions of the model that `except Exception` catches
ExceptionClasses ==
    {"PlaywrightError", "TimeoutError", "ConnectError", "APIError",
     "JSONDecodeError", "IndexError", "AttributeError", "ValueError", "TypeError"}

\* `try: body  except Exception: return neutral`
TryExcept(body, neutral) ==
    IF body.raises = "" THEN Ok(body.value)
    ELSE IF body.raises \in ExceptionClasses THEN Ok(neutral)
    ELSE Raised

\* len(_extract_significant_words(title)): the words of more than 3 letters
SignificantWords(job_title) ==
    CASE job_title = "Data Engineer" -> 2
      [] job_title = "Lead QA" -> 1
      [] OTHER -> 0

\* the try block of parity_check; a failing page.goto is passed over, and
\* an exception of browser.close() in the `finally` replaces the outcome
parity_try(job_title, env) ==
    IF env.launch = "raises" THEN Raises("PlaywrightError")
    ELSE LET found_page ==
                 \/ env.careers_url /\ env.goto_found = "ok"
                 \/ env.goto_guess = "ok"
             body ==
                 IF ~found_page THEN Returns(<<0, None>>)
                 ELSE IF env.inner_text = "raises" THEN Raises("TimeoutError")
                 ELSE IF 2 * env.matches >= SignificantWords(job_title)
                      THEN Returns(<<WEIGHT_PARITY_PASS, None>>)
                      ELSE Returns(<<WEIGHT_PARITY_FAIL,
                                     RedFlag("parity", "Not found on company careers page",
                                             "high")>>)
         IN  IF env.close = "raises" THEN Raises("PlaywrightError") ELSE body

parity_check(company, job_title, env) ==
    IF company = "" \/ job_title = "" THEN Ok(<<0, None>>)
    ELSE IF ~env.has_playwright THEN Ok(<<0, None>>)
    ELSE IF SignificantWords(job_title) = 0 THEN Ok(<<0, None>>)
    ELSE TryExcept(parity_try(job_title, env), <<0, None>>)

\* the try block of financial_health_check
financial_try(resp) ==
    IF resp.raises THEN Raises("ConnectError")
    ELSE IF resp.status # 200 THEN Returns(<<0, None>>)
    ELSE IF ~resp.json THEN Raises("JSONDecodeError")
    ELSE IF resp.totalResults > 0 /\ resp.titles # <<>>
         THEN Returns(<<WEIGHT_FINANCIAL_LAYOFFS,
                        RedFlag("financial", "Recent news: " \o resp.titles[1].str,
                                "high")>>)
         ELSE Returns(<<0, None>>)

financial_health_check(company, api_key, resp) ==
    IF api_key \in {"None", "", "your_key_here"} THEN Ok(<<0, None>>)
    ELSE IF company = "" THEN Ok(<<0, None>>)
    ELSE TryExcept(financial_try(resp), <<0, None>>)

\* an answer of `client.messages.create`: the exception the call or the
\* reading of the reply raises ("" when none), and the fields of the JSON
\* object of the reply; list_ok tells whether redFlags can be sliced
LlmReply(raises, templateScore, legitimacyScore, list_ok, redFlags) ==
    [raises |-> raises, templateScore |-> templateScore,
     legitimacyScore |-> legitimacyScore, list_ok |-> list_ok, redFlags |-> redFlags,
     reasoning |-> "reads like a template"]

\* one element of redFlags: whether it is a str, its text and its length
LlmFlag(is_str, text, len) == [is_str |-> is_str, text |-> text, len |-> len]

\* the try block of llm_analysis
llm_try(reply) ==
    IF reply.raises # "" THEN Raises(reply.raises)
    ELSE LET template_score == reply.templateScore IN
         IF template_score > 80
         THEN Returns(<<WEIGHT_SENTIMENT_MAX,
                        RedFlag("sentiment", "AI analysis: JD is " \o ToString(template_score)
                                    \o "% boilerplate - " \o reply.reasoning, "high")>>)
         ELSE IF template_score >= 50
         THEN Returns(<<WEIGHT_SENTIMENT_MED,
                        RedFlag("sentiment", "AI analysis: JD is " \o ToString(template_score)
                                    \o "% generic - " \o reply.reasoning, "medium")>>)
         ELSE Returns(<<0, None>>)

llm_analysis(raw_text, api_key, reply) ==
    IF api_key \in {"None", "", "your_key_here"} THEN Ok(<<0, None>>)
    ELSE IF raw_text = "" THEN Ok(<<0, None>>)
    ELSE TryExcept(llm_try(reply), <<0, None>>)

\* the signals of llm_red_flags[:3], from position i on
RECURSIVE DetectedFlags(_, _)
DetectedFlags(flags, i) ==
    IF i > Len(flags) \/ i > 3 THEN <<>>
    ELSE (IF flags[i].is_str /\ flags[i].len > 10
          THEN << <<IF i = 1 THEN 8 ELSE 5,
                    RedFlag("sentiment", "AI detected: " \o flags[i].text,
                            IF i = 1 THEN "high" ELSE "medium")>> >>
          ELSE <<>>)
         \o DetectedFlags(flags, i + 1)

\* the try block of llm_deep_analysis; what was appended to `results`
\* before an exception is not returned
llm_deep_try(reply) ==
    IF reply.raises # "" THEN Raises(reply.raises)
    ELSE LET legitimacy_score == reply.legitimacyScore
             legitimacy ==
                 IF legitimacy_score < 20
                 THEN << <<20, RedFlag("sentiment", "AI legitimacy assessment: "
                              \o ToString(legitimacy_score)
                              \o "/100 - this posting has strong ghost job indicators",
                              "high")>> >>
                 ELSE IF legitimacy_score < 40
                 THEN << <<14, RedFlag("sentiment", "AI legitimacy assessment: "
                              \o ToString(legitimacy_score)
                              \o "/100 - multiple concerns about whether this is a genuine hire",
                              "high")>> >>
                 ELSE IF legitimacy_score < 60
                 THEN << <<8, RedFlag("sentiment", "AI legitimacy assessment: "
                              \o ToString(legitimacy_score)
                              \o "/100 - some concerns about this listing",
                              "medium")>> >>
                 ELSE <<>>
         IN  IF ~reply.list_ok THEN Raises("TypeError")
             ELSE Returns(legitimacy \o DetectedFlags(reply.redFlags, 1))

llm_deep_analysis(raw_text, api_key, reply) ==
    IF api_key \in {"None", "", "your_key_here"} THEN Ok(<<>>)
    ELSE IF raw_text = "" THEN Ok(<<>>)
    ELSE TryExcept(llm_deep_try(reply), <<>>)

\* what Playwright, Google and the careers page answer to parity_check
ParityEnvs ==
    [has_playwright : BOOLEAN, launch : {"ok", "raises"}, careers_url : BOOLEAN,
     goto_found : {"ok", "not_ok", "raises"}, goto_guess : {"ok", "not_ok", "raises"},
     inner_text : {"ok", "raises"}, matches : 0..2, close : {"ok", "raises"}]

ApiKeys == {"None", "your_key_here", "k3y"}

FinancialResponses ==
    {HttpRaises, HttpMalformed, HttpResponse(429, 0, <<>>), HttpResponse(200, 0, <<>>),
     HttpResponse(200, 4, <<>>)}
        \cup {HttpResponse(200, 2, <<h>>) : h \in Headlines}

LlmFlagLists ==
    {<<>>,
     <<LlmFlag(TRUE, "no deliverables mentioned", 25), LlmFlag(TRUE, "vague", 5)>>,
     <<LlmFlag(FALSE, "", 0), LlmFlag(TRUE, "requirements span disciplines", 29),
       LlmFlag(TRUE, "title does not match", 20), LlmFlag(TRUE, "a fourth concern", 16)>>}

LlmReplies ==
    {LlmReply(e, 0, 100, TRUE, <<>>) :
        e \in {"APIError", "TimeoutError", "IndexError", "JSONDecodeError",
               "AttributeError", "ValueError"}}
    \cup {LlmReply("", t, l, TRUE, f) :
            t \in {0, 49, 50, 80, 81, 100}, l \in {0, 19, 20, 39, 40, 59, 60, 100},
            f \in LlmFlagLists}
    \cup {LlmReply("", 90, l, FALSE, <<>>) : l \in {10, 100}}

InitCollab ==
    /\ input \in
          ({"parity"} \X {"", "Acme"} \X {"", "Lead QA", "Data Engineer", "QA"} \X ParityEnvs)
          \cup ({"financial"} \X {"", "Acme"} \X ApiKeys \X FinancialResponses)
          \cup ({"llm", "llm_deep"} \X {"", "We build rockets."} \X ApiKeys \X LlmReplies)
    /\ output = <<>>
    /\ call = <<>>
    /\ ret = <<>>
    /\ Idle

ParityCheck ==
    /\ output = <<>>
    /\ input[1] = "parity"
    /\ output' = <<parity_check(input[2], input[3], input[4])>>
    /\ UNCHANGED <<input, call, ret, orchestratorVars>>

FinancialHealthCheck ==
    /\ output = <<>>
    /\ input[1] = "financial"
    /\ output' = <<financial_health_check(input[2], input[3], input[4])>>
    /\ UNCHANGED <<input, call, ret, orchestratorVars>>

LlmAnalysis ==
    /\ output = <<>>
    /\ input[1] = "llm"
    /\ output' = <<llm_analysis(input[2], input[3], input[4])>>
    /\ UNCHANGED <<input, call, ret, orchestratorVars>>

LlmDeepAnalysis ==
    /\ output = <<>>
    /\ input[1] = "llm_deep"
    /\ output' = <<llm_deep_analysis(input[2], input[3], input[4])>>
    /\ UNCHANGED <<input, call, ret, orchestratorVars>>

NextCollab == ParityCheck \/ FinancialHealthCheck \/ LlmAnalysis \/ LlmDeepAnalysis

SpecCollab == InitCollab /\ [][NextCollab]_vars

\* a failure of the collaborator called with `input`: missing credentials,
\* missing tooling, unreachable page, non-success response, malformed reply,
\* or an exception during the call
CollaboratorFails ==
    LET x == input[4] IN
    CASE input[1] = "parity" ->
            \/ ~x.has_playwright
            \/ x.launch = "raises"
            \/ (~x.careers_url \/ x.goto_found # "ok") /\ x.goto_guess # "ok"
            \/ x.inner_text = "raises"
            \/ x.close = "raises"
      [] input[1] = "financial" ->
            \/ input[3] \in {"None", "your_key_here"}
            \/ x.raises
            \/ x.status # 200
            \/ ~x.json
      [] OTHER ->
            \/ input[3] \in {"None", "your_key_here"}
            \/ x.raises # ""
            \/ input[1] = "llm_deep" /\ ~x.list_ok

\* C16: parity_check, financial_health_check, llm_analysis and
\* llm_deep_analysis never raise, and on each of their failures they return
\* the neutral signal (0, none), the empty list for llm_deep_analysis.
C16_CollaboratorsConvertFailures ==
    output # <<>> =>
        /\ ~output[1].exc
        /\ CollaboratorFails =>
              output[1].value = (IF input[1] = "llm_deep" THEN <<>> ELSE <<0, None>>)

\* llm_deep_analysis had appended the legitimacy signal when slicing redFlags
\* raised: the empty list is returned
C16_Witness ==
    /\ output # <<>>
    /\ input[1] = "llm_deep"
    /\ input[2] # ""
    /\ input[3] = "k3y"
    /\ input[4].raises = ""
    /\ ~input[4].list_ok
    /\ input[4].legitimacyScore = 10
    /\ output[1] = [exc |-> FALSE, value |-> <<>>]

-----------------------------------------------------------------------------
(* services/heuristic_analysis.py.  A text is represented by what the scans
   of the analyzer find in it: whether it is the empty string, its number of
   whitespace-separated words, the number of phrases of each list it
   contains, and the captures of the regular expressions. *)

WEIGHT_VAGUE_TITLE == 10
WEIGHT_BOILERPLATE_HEAVY == 15
WEIGHT_NO_SPECIFICS == 12
WEIGHT_EXCESSIVE_REQUIREMENTS == 10
WEIGHT_REPOST_SIGNALS == 15
WEIGHT_KITCHEN_SINK == 12
WEIGHT_SHORT_JD == 10
WEIGHT_SALARY_RED_FLAG == 8
WEIGHT_APPLICATION_RED_FLAG == 10
WEIGHT_URGENCY_MANIPULATION == 8
WEIGHT_COPY_PASTE_ARTIFACTS == 12

\* one capture `[\d,]+` of the salary pattern: digits with optional commas,
\* read as `value` by int(s.replace(",", "")), or commas alone
Amount(value) == [commas_only |-> FALSE, value |-> value]
CommasOnly == [commas_only |-> TRUE, value |-> 0]

\* a text of 120 words in which no scan finds anything but two specifics
PlainText ==
    [empty |-> FALSE, words |-> 120, boilerplate |-> 0, specifics |-> 2, techs |-> 0,
     repost |-> FALSE, exp_matches |-> <<>>, salary_ranges |-> <<>>,
     competitive |-> FALSE, doe |-> FALSE, dollars |-> FALSE,
     redirect |-> 0, urgency |-> 0, placeholders |-> 0, paragraphs |-> <<>>]

\* variant: the first pattern is searched without its ^ and $ anchors
is_vague_title_unanchored(title) == title \in {"Analyst", "Talent Pool", "Senior Associate"}

\* re.search of a pattern of VAGUE_TITLE_PATTERNS in the stripped lower-cased title
is_vague_title(title) == title \in {"Analyst", "Talent Pool"}

\* variant: both tiers are tested with `if`
boilerplate_rule_both(boilerplate_count) ==
    (IF boilerplate_count >= 6
     THEN << <<15, RedFlag("sentiment", "Job description contains " \o
                  ToString(boilerplate_count) \o
                  " generic buzzword phrases - likely a template", "high")>> >>
     ELSE <<>>)
    \o
    (IF boilerplate_count >= 3
     THEN << <<15 \div 2, RedFlag("sentiment", "Job description contains " \o
                  ToString(boilerplate_count) \o " common buzzword phrases", "medium")>> >>
     ELSE <<>>)

\* 2. Boilerplate density
boilerplate_rule(boilerplate_count) ==
    IF boilerplate_count >= 6
    THEN << <<WEIGHT_BOILERPLATE_HEAVY,
              RedFlag("sentiment", "Job description contains " \o
                  ToString(boilerplate_count) \o
                  " generic buzzword phrases - likely a template", "high")>> >>
    ELSE IF boilerplate_count >= 3
    THEN << <<WEIGHT_BOILERPLATE_HEAVY \div 2,
              RedFlag("sentiment", "Job description contains " \o
                  ToString(boilerplate_count) \o " common buzzword phrases", "medium")>> >>
    ELSE <<>>

\* max(int(y) for y in exp_matches), for a non-empty list
RECURSIVE MaxOf(_)
MaxOf(list) ==
    IF Len(list) = 1 THEN list[1] ELSE Max(Head(list), MaxOf(Tail(list)))

\* variant: the junior keywords of the title are not looked at
experience_rule_any_title(exp_matches, title) ==
    IF exp_matches # <<>> /\ MaxOf(exp_matches) >= 10
    THEN << <<10, RedFlag("structure", "Requires " \o ToString(MaxOf(exp_matches)) \o
                  "+ years experience for a junior/mid-level title - contradictory requirements",
                  "high")>> >>
    ELSE <<>>

\* 7. Excessive years of experience
experience_rule(exp_matches, title) ==
    IF exp_matches = <<>> THEN <<>>
    ELSE LET max_exp == MaxOf(exp_matches)
             is_junior_mid ==
                 TitleKeywords(title) \cap {"junior", "jr", "entry", "associate", "intern"} # {}
         IN  IF max_exp >= 10 /\ is_junior_mid
             THEN << <<WEIGHT_EXCESSIVE_REQUIREMENTS,
                       RedFlag("structure", "Requires " \o ToString(max_exp) \o
                           "+ years experience for a junior/mid-level title - contradictory requirements",
                           "high")>> >>
             ELSE IF max_exp >= 15
             THEN << <<WEIGHT_EXCESSIVE_REQUIREMENTS,
                       RedFlag("structure", "Requires " \o ToString(max_exp) \o
                           "+ years experience - extremely high bar may indicate a pre-selected candidate",
                           "medium")>> >>
             ELSE <<>>

\* f"{n:,}"
RECURSIVE Commas(_)
Commas(n) ==
    IF n < 1000 THEN ToString(n)
    ELSE Commas(n \div 1000) \o "," \o
         (LET r == n % 1000 IN
          IF r < 10 THEN "00" \o ToString(r)
          ELSE IF r < 100 THEN "0" \o ToString(r) ELSE ToString(r))

\* f"{high / low:.1f}", for ratios that are not halfway between two tenths
RatioTenths(high, low) ==
    LET t == (20 * high + low) \div (2 * low)
    IN  ToString(t \div 10) \o "." \o ToString(t % 10)

\* the loop of _detect_salary_issues over salary_ranges from position i on:
\* int() raises ValueError on a capture without digits, and the loop ends
\* (`break`) at the first range whose ratio is at least 2.0
RECURSIVE salary_range_loop(_, _)
salary_range_loop(salary_ranges, i) ==
    IF i > Len(salary_ranges) THEN Returns(<<>>)
    ELSE IF salary_ranges[i][1].commas_only \/ salary_ranges[i][2].commas_only
    THEN Raises("ValueError")
    ELSE LET l == salary_ranges[i][1].value
             h == salary_ranges[i][2].value
             low == IF l < 1000 THEN l * 1000 ELSE l
             high == IF h < 1000 THEN h * 1000 ELSE h
         IN  IF high > 0 /\ low > 0 /\ high >= 3 * low
             THEN Returns(<< <<WEIGHT_SALARY_RED_FLAG,
                      RedFlag("compensation",
                          "Salary range is extremely wide ($" \o Commas(low) \o "-$" \o
                          Commas(high) \o ", a " \o RatioTenths(high, low) \o
                          "x spread) - vague compensation suggests the role is not well-defined",
                          "medium")>> >>)
             ELSE IF high > 0 /\ low > 0 /\ high >= 2 * low
             THEN Returns(<< <<WEIGHT_SALARY_RED_FLAG \div 2,
                      RedFlag("compensation",
                          "Salary range is broad ($" \o Commas(low) \o "-$" \o Commas(high) \o
                          ") - may indicate the role scope is unclear",
                          "low")>> >>)
             ELSE salary_range_loop(salary_ranges, i + 1)

detect_salary_issues(text) ==
    LET ranges == salary_range_loop(text.salary_ranges, 1) IN
    IF ranges.raises # "" THEN ranges
    ELSE Returns(
        ranges.value
        \o (IF text.competitive /\ ~text.dollars
            THEN << <<WEIGHT_SALARY_RED_FLAG \div 2,
                      RedFlag("compensation",
                          "Claims 'competitive salary' but provides no actual numbers - lack of pay transparency is a red flag",
                          "low")>> >>
            ELSE <<>>)
        \o (IF text.doe /\ ~text.dollars
            THEN << <<WEIGHT_SALARY_RED_FLAG \div 2,
                      RedFlag("compensation",
                          "Compensation listed as 'depends on experience' with no range - common in ghost postings that aren't budgeted",
                          "low")>> >>
            ELSE <<>>))

detect_application_red_flags(text) ==
    (IF text.redirect >= 2
     THEN << <<WEIGHT_APPLICATION_RED_FLAG,
               RedFlag("structure",
                   "Application process has multiple red flags (external redirects, email-only, no-contact policies)",
                   "medium")>> >>
     ELSE <<>>)
    \o
    (IF text.urgency >= 2
     THEN << <<WEIGHT_URGENCY_MANIPULATION,
               RedFlag("structure", "Uses " \o ToString(text.urgency) \o
                   " urgency phrases to pressure quick applications - legitimate roles don't need high-pressure tactics",
                   "medium")>> >>
     ELSE <<>>)

\* one block of text.split("\n\n"): the length of p.strip() and the first
\* 100 characters of its lower-cased form
Paragraph(len, head) == [len |-> len, head |-> head]

\* the loop over `paragraphs` from position i on: the number of paragraphs
\* of more than 50 characters whose head is in `seen`
RECURSIVE repeated_paragraphs(_, _, _)
repeated_paragraphs(blocks, i, seen) ==
    IF i > Len(blocks) THEN 0
    ELSE IF ~(blocks[i].len > 50) THEN repeated_paragraphs(blocks, i + 1, seen)
    ELSE (IF blocks[i].head \in seen THEN 1 ELSE 0)
         + repeated_paragraphs(blocks, i + 1, seen \cup {blocks[i].head})

\* variant: a placeholder pattern counts 1
detect_copy_paste_artifacts_single(text) ==
    IF text.placeholders + repeated_paragraphs(text.paragraphs, 1, {}) >= 2
    THEN << <<12, RedFlag("sentiment",
                  "Job description contains copy-paste artifacts (placeholder text, duplicate sections) - likely recycled from a template",
                  "high")>> >>
    ELSE <<>>

\* the signal of _detect_copy_paste_artifacts as a list: <<>> stands for None;
\* text.placeholders is the number of placeholder patterns found
detect_copy_paste_artifacts(text) ==
    LET signals == 2 * text.placeholders
                   + repeated_paragraphs(text.paragraphs, 1, {}) IN
    IF signals >= 2
    THEN << <<WEIGHT_COPY_PASTE_ARTIFACTS,
              RedFlag("sentiment",
                  "Job description contains copy-paste artifacts (placeholder text, duplicate sections) - likely recycled from a template",
                  "high")>> >>
    ELSE <<>>

\* variant: both tiers are tested with `if`
kitchen_sink_rule_both(tech_count) ==
    (IF tech_count >= 12
     THEN << <<12, RedFlag("sentiment", "Lists " \o ToString(tech_count) \o
                  " distinct technologies - unrealistic requirements suggest a placeholder listing",
                  "high")>> >>
     ELSE <<>>)
    \o
    (IF tech_count >= 8
     THEN << <<12 \div 2, RedFlag("sentiment", "Lists " \o ToString(tech_count) \o
                  " distinct technologies - unusually broad requirements", "medium")>> >>
     ELSE <<>>)

\* 4. Kitchen-sink requirements
kitchen_sink_rule(tech_count) ==
    IF tech_count >= 12
    THEN << <<WEIGHT_KITCHEN_SINK,
              RedFlag("sentiment", "Lists " \o ToString(tech_count) \o
                  " distinct technologies - unrealistic requirements suggest a placeholder listing",
                  "high")>> >>
    ELSE IF tech_count >= 8
    THEN << <<WEIGHT_KITCHEN_SINK \div 2,
              RedFlag("sentiment", "Lists " \o ToString(tech_count) \o
                  " distinct technologies - unusually broad requirements",
                  "medium")>> >>
    ELSE <<>>

\* variant: `if word_count <= 80`
short_jd_rule_upto(word_count) ==
    IF word_count <= 80
    THEN << <<10, RedFlag("sentiment", "Job description is only " \o
                  ToString(word_count) \o
                  " words - too brief to be a real, detailed listing", "medium")>> >>
    ELSE <<>>

\* 6. Extremely short JD
short_jd_rule(word_count) ==
    IF 0 < word_count /\ word_count < 80
    THEN << <<WEIGHT_SHORT_JD,
              RedFlag("sentiment", "Job description is only " \o
                  ToString(word_count) \o
                  " words - too brief to be a real, detailed listing",
                  "medium")>> >>
    ELSE <<>>

\* heuristic_analysis: how the call ends; an exception of
\* _detect_salary_issues is not caught
heuristic_analysis(raw_text, title) ==
    IF raw_text.empty THEN Ok(<<>>)
    ELSE
      LET word_count == raw_text.words
          before ==
            (IF is_vague_title(title)
             THEN << <<WEIGHT_VAGUE_TITLE,
                       RedFlag("sentiment", "Job title '" \o title \o
                           "' is vague or suggests a talent pool, not a real opening",
                           "medium")>> >>
             ELSE <<>>)
            \o boilerplate_rule(raw_text.boilerplate)
            \o (IF word_count > 100 /\ ~(raw_text.specifics >= 2)
                THEN << <<WEIGHT_NO_SPECIFICS,
                          RedFlag("sentiment",
                              "No concrete details found - no team size, metrics, projects, or specific deliverables mentioned",
                              "medium")>> >>
                ELSE <<>>)
            \o kitchen_sink_rule(raw_text.techs)
            \o (IF raw_text.repost
                THEN << <<WEIGHT_REPOST_SIGNALS,
                          RedFlag("age",
                              "Posting contains language suggesting it is recycled, evergreen, or a talent pipeline",
                              "high")>> >>
                ELSE <<>>)
            \o short_jd_rule(word_count)
            \o experience_rule(raw_text.exp_matches, title)
          salary == detect_salary_issues(raw_text)
      IN  IF salary.raises # "" THEN Raised
          ELSE Ok(before \o salary.value \o detect_application_red_flags(raw_text)
                     \o detect_copy_paste_artifacts(raw_text))

\* largest number of boilerplate phrases found in a text
MaxPhrases == 7

\* largest number of salary ranges in a text
MaxRanges == 2

ExpLists == {<<>>, <<3>>, <<9>>, <<10>>, <<3, 12>>, <<14>>, <<15>>, <<20, 5>>}

\* "$40k-$160k", "$50k-$120k", "$80k-$100k", "$50,000-$150,000", "$0-$50k",
\* "$,-$50k"
SalaryRanges ==
    {<<Amount(40), Amount(160)>>, <<Amount(50), Amount(120)>>,
     <<Amount(80), Amount(100)>>, <<Amount(50000), Amount(150000)>>,
     <<Amount(0), Amount(50)>>, <<CommasOnly, Amount(50)>>}

\* largest number of blocks of a text
MaxParagraphs == 3

\* a heading of 20 characters, two paragraphs of 60 and 300 characters, and
\* one of exactly 50
Paragraphs ==
    {Paragraph(20, "about the role"),
     Paragraph(60, "we are an equal opportunity employer and value diversity."),
     Paragraph(300, "acme builds rockets. you will own the guidance software ..."),
     Paragraph(50, "benefits include health, dental and vision plans.")}

HeurTexts ==
    {[PlainText EXCEPT !.empty = TRUE, !.words = 0, !.specifics = 0],
     [PlainText EXCEPT !.words = 0, !.specifics = 0]}
    \cup {[PlainText EXCEPT !.boilerplate = n, !.words = w, !.specifics = k] :
            n \in 0..MaxPhrases, w \in {1, 40, 79, 80, 100, 101, 120}, k \in 0..2}
    \cup {[PlainText EXCEPT !.exp_matches = e, !.boilerplate = n] :
            e \in ExpLists, n \in {0, 3, 6}}
    \cup {[PlainText EXCEPT !.salary_ranges = r, !.dollars = (d \/ r # <<>>),
                            !.competitive = c, !.doe = c] :
            r \in SeqsUpTo(SalaryRanges, MaxRanges), d \in BOOLEAN, c \in BOOLEAN}
    \cup {[PlainText EXCEPT !.techs = t, !.repost = r, !.redirect = a, !.urgency = a,
                            !.placeholders = q] :
            t \in {0, 7, 8, 11, 12}, r \in BOOLEAN, a \in 0..2, q \in 0..1}
    \cup {[PlainText EXCEPT !.placeholders = q, !.paragraphs = b] :
            q \in 0..2, b \in SeqsUpTo(Paragraphs, MaxParagraphs)}

HeurTitles ==
    {"Analyst", "Talent Pool", "Senior Associate", "Junior Developer", "Director of Data"}

InitHeur ==
    /\ input \in HeurTexts \X HeurTitles
    /\ output = <<>>
    /\ call = <<>>
    /\ ret = <<>>
    /\ Idle

HeuristicAnalysis ==
    /\ input # <<>>
    /\ output = <<>>
    /\ output' = <<heuristic_analysis(input[1], input[2])>>
    /\ UNCHANGED <<input, call, ret, orchestratorVars>>

SpecHeur == InitHeur /\ [][HeuristicAnalysis]_vars

\* the heuristic analyzer has returned a list
HeurReturned == output # <<>> /\ ~output[1].exc

\* the number of signals of the list returned that satisfy P
CountSignals(P(_)) ==
    Cardinality({i \in 1..Len(output[1].value) : P(output[1].value[i])})

IsBoilerHigh(sig) ==
    /\ sig[1] = 15
    /\ sig[2] = RedFlag("sentiment", "Job description contains " \o
                    ToString(input[1].boilerplate) \o
                    " generic buzzword phrases - likely a template", "high")

IsBoilerMedium(sig) ==
    /\ sig[1] = 7
    /\ sig[2] = RedFlag("sentiment", "Job description contains " \o
                    ToString(input[1].boilerplate) \o " common buzzword phrases", "medium")

\* C18: with n boilerplate phrases in a non-empty text, the analyzer emits
\* exactly one (+15, sentiment, high) boilerplate signal when n >= 6, exactly
\* one (+7, sentiment, medium) when 3 <= n <= 5, none when n < 3, and never
\* both.
C18_BoilerplateTiers ==
    HeurReturned /\ ~input[1].empty =>
        LET n == input[1].boilerplate IN
        /\ CountSignals(IsBoilerHigh) = (IF n >= 6 THEN 1 ELSE 0)
        /\ CountSignals(IsBoilerMedium) = (IF n >= 3 /\ n <= 5 THEN 1 ELSE 0)

\* exactly 6 phrases: the high tier alone
C18_Witness ==
    /\ HeurReturned
    /\ input[1].boilerplate = 6
    /\ CountSignals(IsBoilerHigh) = 1
    /\ CountSignals(IsBoilerMedium) = 0

\* low and high of a range as the analyzer reads them
Thousands(amount) == IF amount.value < 1000 THEN amount.value * 1000 ELSE amount.value

\* the text has a range with ratio at least k
HasRatio(k) ==
    \E i \in 1..Len(input[1].salary_ranges) :
        LET r == input[1].salary_ranges[i] IN
        /\ Thousands(r[1]) > 0
        /\ Thousands(r[2]) >= k * Thousands(r[1])

IsWideRange(sig) ==
    sig[1] = 8 /\ sig[2].type = "compensation" /\ sig[2].severity = "medium"

\* the +4 signal of the ranges; the two other +4 compensation signals are
\* told apart by their messages
IsBroadRange(sig) ==
    /\ sig[1] = 4
    /\ sig[2].type = "compensation"
    /\ sig[2].severity = "low"
    /\ sig[2].message \notin
          {"Claims 'competitive salary' but provides no actual numbers - lack of pay transparency is a red flag",
           "Compensation listed as 'depends on experience' with no range - common in ghost postings that aren't budgeted"}

\* C19: the analyzer emits the wide-range signal (+8, compensation, medium)
\* whenever the text has a range with ratio at least 3.0, the weaker signal
\* (+4, low) when a range has ratio at least 2.0 and none reaches 3.0, and at
\* most one salary-range signal.
C19_SalaryRangeTiers ==
    HeurReturned /\ ~input[1].empty =>
        /\ HasRatio(3) => CountSignals(IsWideRange) = 1
        /\ HasRatio(2) /\ ~HasRatio(3) => CountSignals(IsBroadRange) = 1
        /\ CountSignals(IsWideRange) + CountSignals(IsBroadRange) <= 1

IsExperience(sig) == sig[1] = 10 /\ sig[2].type = "structure" /\ sig[2].severity \in {"high", "medium"}
    /\ sig[2].message \notin
          {"Application process has multiple red flags (external redirects, email-only, no-contact policies)"}

IsExperienceHigh(sig) == IsExperience(sig) /\ sig[2].severity = "high"

\* C20: the contradictory-experience signal (+10, structure) is emitted at
\* most once: with severity high when the largest years figure is >= 10 and
\* the title has a junior keyword, otherwise with severity medium when that
\* figure is >= 15; never when the text has no years-of-experience figure.
C20_ExperienceRule ==
    HeurReturned /\ ~input[1].empty =>
        LET e == input[1].exp_matches
            junior == input[2] \in {"Senior Associate", "Junior Developer"}
            big(k) == \E i \in 1..Len(e) : e[i] >= k
        IN  /\ CountSignals(IsExperience) <= 1
            /\ CountSignals(IsExperienceHigh) = (IF big(10) /\ junior THEN 1 ELSE 0)
            /\ CountSignals(IsExperience) =
                  (IF (big(10) /\ junior) \/ big(15) THEN 1 ELSE 0)
            /\ e = <<>> => CountSignals(IsExperience) = 0

\* "Senior Associate" with 3 and 12 years: high, because of "associate"
C20_Witness ==
    /\ HeurReturned
    /\ input[2] = "Senior Associate"
    /\ input[1].exp_matches = <<3, 12>>
    /\ CountSignals(IsExperienceHigh) = 1

IsShortJd(sig) ==
    /\ sig[1] = 10
    /\ sig[2] = RedFlag("sentiment", "Job description is only " \o
                    ToString(input[1].words) \o
                    " words - too brief to be a real, detailed listing", "medium")

\* C21: with w the number of whitespace-separated words of the text, the
\* analyzer emits the too-short signal (+10, sentiment, medium) if and only
\* if 0 < w < 80.
C21_ShortJd ==
    HeurReturned =>
        CountSignals(IsShortJd) =
            (IF 0 < input[1].words /\ input[1].words < 80 THEN 1 ELSE 0)

\* exactly 40 words
C21_Witness ==
    /\ HeurReturned
    /\ input[1].words = 40
    /\ CountSignals(IsShortJd) = 1

IsVagueTitle(sig) ==
    /\ sig[1] = 10
    /\ sig[2] = RedFlag("sentiment", "Job title '" \o input[2] \o
                    "' is vague or suggests a talent pool, not a real opening", "medium")

\* the titles of the model that match a pattern of VAGUE_TITLE_PATTERNS:
\* "analyst" is the whole title, "talent pool" matches talent\s+(pool|...)
MatchesVaguePattern == input[2] \in {"Analyst", "Talent Pool"}

IsKitchenHigh(sig) ==
    /\ sig[1] = 12
    /\ sig[2] = RedFlag("sentiment", "Lists " \o ToString(input[1].techs) \o
                    " distinct technologies - unrealistic requirements suggest a placeholder listing",
                    "high")

IsKitchenMedium(sig) ==
    /\ sig[1] = 6
    /\ sig[2] = RedFlag("sentiment", "Lists " \o ToString(input[1].techs) \o
                    " distinct technologies - unusually broad requirements", "medium")

IsNoSpecifics(sig) ==
    sig = <<12, RedFlag("sentiment",
                "No concrete details found - no team size, metrics, projects, or specific deliverables mentioned",
                "medium")>>

IsRepost(sig) ==
    sig = <<15, RedFlag("age",
                "Posting contains language suggesting it is recycled, evergreen, or a talent pipeline",
                "high")>>

IsHiddenCompensation(sig) ==
    sig = <<4, RedFlag("compensation",
                "Claims 'competitive salary' but provides no actual numbers - lack of pay transparency is a red flag",
                "low")>>

IsDoe(sig) ==
    sig = <<4, RedFlag("compensation",
                "Compensation listed as 'depends on experience' with no range - common in ghost postings that aren't budgeted",
                "low")>>

IsApplication(sig) ==
    sig = <<10, RedFlag("structure",
                "Application process has multiple red flags (external redirects, email-only, no-contact policies)",
                "medium")>>

IsUrgency(sig) == sig[1] = 8 /\ sig[2].type = "structure" /\ sig[2].severity = "medium"

IsCopyPaste(sig) ==
    sig = <<12, RedFlag("sentiment",
                "Job description contains copy-paste artifacts (placeholder text, duplicate sections) - likely recycled from a template",
                "high")>>

-----------------------------------------------------------------------------
(* The rules of the company analyzer, under SpecCompany. *)

\* the number of signals returned by company_intel that satisfy P
CountCompany(P(_)) ==
    Cardinality({i \in 1..Len(output[1].value) : P(output[1].value[i])})

\* the research result handed to the rules
Research == search_company_info(input[4][1], input[4][2], input[4][3])

IsStaffing(sig) == sig[1] = 12 /\ sig[2].type = "company" /\ sig[2].severity = "high"

IsFreelanceHigh(sig) ==
    /\ sig[1] = 10
    /\ sig[2] = RedFlag("company", "Role has " \o ToString(input[2].freelance) \o
                    " signals of freelance/contractor classification - may not be a real employee position",
                    "high")

IsFreelanceMedium(sig) == sig[1] = 5 /\ sig[2].type = "company" /\ sig[2].severity = "medium"

IsTurnover(sig) == sig[1] = 10 /\ sig[2].type = "company" /\ sig[2].severity = "medium"

IsNoPresence(sig) == sig = <<15, NoPresenceFlag(input[1])>>

IsControversy(sig) ==
    /\ sig[1] = 10
    /\ sig[2].type = "company"
    /\ sig[2].severity = "high"
    /\ ~IsFreelanceHigh(sig)

IsSeniorTiny(sig) == sig[1] = 8 /\ sig[2].type = "structure" /\ sig[2].severity = "medium"

IsContractToHire(sig) == sig[1] = 5 /\ sig[2].type = "structure" /\ sig[2].severity = "low"

\* every rule emits its signal exactly when its own trigger holds, and
\* nothing else is returned
RulesByTrigger ==
    LET t == input[2]
        n(b) == IF b THEN 1 ELSE 0
    IN  /\ CountCompany(IsStaffing) =
              n(input[1] = "Robert Half" \/ t.staffing_hits >= 2 \/ t.client_pattern)
        /\ CountCompany(IsFreelanceHigh) = n(t.freelance >= 3)
        /\ CountCompany(IsFreelanceMedium) = n(t.freelance >= 1 /\ t.freelance <= 2)
        /\ CountCompany(IsTurnover) = n(t.turnover >= 3)
        /\ CountCompany(IsNoPresence) = n(Research.article_count = 0)
        /\ CountCompany(IsControversy) = n(Research.has_controversy)
        /\ CountCompany(IsSeniorTiny) = n(input[3] = "Director of Data" /\ t.tiny >= 2)
        /\ CountCompany(IsContractToHire) = n(t.cth)
        /\ Len(output[1].value) =
              CountCompany(IsStaffing) + CountCompany(IsFreelanceHigh)
              + CountCompany(IsFreelanceMedium) + CountCompany(IsTurnover)
              + CountCompany(IsNoPresence) + CountCompany(IsControversy)
              + CountCompany(IsSeniorTiny) + CountCompany(IsContractToHire)

\* C24 as stated: for every company, rawText, title and research result,
\* each rule of the company analyzer emits its signal exactly when its own
\* trigger holds; no rule or input condition suppresses another rule.
C24_RulesIndependentAnyCompany ==
    output # <<>> => RulesByTrigger

\* C24 amended: for every non-empty company, each rule emits its signal
\* exactly when its own trigger holds, whatever the other rules and inputs
\* are; for the empty company the analyzer returns the empty list, whatever
\* the text, the title and the research.
C24_RulesIndependentNamedCompany ==
    output # <<>> =>
        /\ input[1] # "" => RulesByTrigger
        /\ input[1] = "" => output[1].value = <<>>

\* all seven rules fire in one evaluation
C24_Witness ==
    /\ output # <<>>
    /\ input[1] = "Acme"
    /\ Len(output[1].value) = 7
    /\ CountCompany(IsControversy) = 1
    /\ CountCompany(IsNoPresence) = 1
    /\ CountCompany(IsFreelanceHigh) = 1

-----------------------------------------------------------------------------
\* the paragraphs of more than 50 characters that repeat an earlier such
\* paragraph
RepeatingParagraphs ==
    LET b == input[1].paragraphs IN
    {i \in 1..Len(b) :
        /\ b[i].len > 50
        /\ \E j \in 1..(i - 1) : b[j].len > 50 /\ b[j].head = b[i].head}

\* C25: the copy-paste rule counts 2 for each placeholder pattern found and
\* 1 for each paragraph of more than 50 characters whose first 100
\* normalized characters repeat an earlier such paragraph, and emits exactly
\* one (+12, sentiment, high) signal if and only if the count is at least
\* 2: one placeholder alone triggers it, one repeated paragraph does not.
C25_CopyPasteCount ==
    HeurReturned /\ ~input[1].empty =>
        CountSignals(IsCopyPaste) =
            (IF 2 * input[1].placeholders + Cardinality(RepeatingParagraphs) >= 2
             THEN 1 ELSE 0)

\* one placeholder and no repeated paragraph
C25_Witness ==
    /\ HeurReturned
    /\ input[1].placeholders = 1
    /\ RepeatingParagraphs = {}
    /\ Len(input[1].paragraphs) = 2
    /\ CountSignals(IsCopyPaste) = 1

-----------------------------------------------------------------------------
(* analyze_job with collaborators that may never answer.  `input` holds the
   set of producers whose collaborator stays silent during this request. *)

\* the producers that await an external collaborator
ExternalProducers == {"parity", "financial", "llm", "company", "llm_deep"}

\* the producers whose awaits of the collaborator carry a timeout in the
\* code: httpx.AsyncClient(timeout=8.0) and page.set_default_timeout(10000)
\* in parity_check, httpx.AsyncClient(timeout=10.0) in
\* financial_health_check and _search_company_info.  The two calls of
\* client.messages.create pass none, and asyncio.gather is not wrapped in
\* asyncio.wait_for
TimedProducers == {"parity", "financial", "company"}

\* what a producer returns when the await of its collaborator ended with a
\* timeout: the except blocks of parity_check, financial_health_check and
\* llm_analysis return (0, None) and the one of llm_deep_analysis returns [];
\* _search_company_info leaves article_count at 0, so company_intel adds the
\* no-presence signal to what its text rules found
TimeoutOutcome(p, found) ==
    CASE p \in {"parity", "financial", "llm"} -> Ok(<<0, None>>)
      [] p = "company" ->
            Ok(found.value \o << <<WEIGHT_NO_WEB_PRESENCE, NoPresenceFlag("Acme")>> >>)
      [] OTHER -> Ok(<<>>)

InitWait ==
    /\ call = <<>>
    /\ ret = <<>>
    /\ Idle
    /\ input \in {<<silent>> : silent \in SUBSET ExternalProducers}
    /\ output = <<>>

\* the tasks are started; a producer whose collaborator stays silent can
\* only end by the timeout
FanOutWait ==
    /\ pc = "analyze_job"
    /\ \E o \in Outcomes :
          /\ \A p \in ProducerSet : ~o[p].exc
          /\ outcome' = [p \in ProducerSet |->
                            IF p \in input[1] THEN TimeoutOutcome(p, o[p]) ELSE o[p]]
    /\ order' = <<>>
    /\ pc' = "gather"
    /\ UNCHANGED <<input, output, call, ret, entry, request, analyze_request, fault, response>>

\* the collaborator of p answers and the task finishes
Respond(p) ==
    /\ p \notin input[1]
    /\ Complete(p)

\* the timeout set in the code expires: the exception is caught in the
\* producer, which returns the neutral signal
TimeoutExpires(p) ==
    /\ p \in input[1]
    /\ p \in TimedProducers
    /\ Complete(p)

\* a timeout that the code does not set (a default of the client library)
\* expires; nothing in the program makes this happen
LibraryTimeoutExpires(p) ==
    /\ p \in input[1]
    /\ p \notin TimedProducers
    /\ Complete(p)

NextWait ==
    \/ ReceiveAnalyze
    \/ FanOutWait
    \/ \E p \in ProducerSet : Respond(p)
    \/ \E p \in ProducerSet : TimeoutExpires(p)
    \/ \E p \in ProducerSet : LibraryTimeoutExpires(p)
    \/ Aggregate
    \/ AggregateRaises

\* the steps the program takes by itself: the event loop runs a task that
\* can run, and a timer that was set expires
Progress ==
    \/ FanOutWait
    \/ \E p \in ProducerSet : Respond(p)
    \/ \E p \in ProducerSet : TimeoutExpires(p)

\* the join is over and the handler returns (Aggregate or AggregateRaises:
\* one of the two is possible whenever every task has finished)
GatherReturns == pc = "gather" /\ AllDone /\ pc' = "done"

SpecWait ==
    InitWait /\ [][NextWait]_vars /\ WF_vars(Progress) /\ WF_pc(GatherReturns)

-----------------------------------------------------------------------------
(* One producer at a time, then the merge of analyze_job and the           *)
(* aggregator: what a producer returns and what becomes of it in the       *)
(* result.  The age signal is produced inside calculate_ghost_score.       *)

\* how the call of the producer inp[1] with the arguments inp[2] ends
ProducerOutcome(inp) ==
    LET a == inp[2] IN
    CASE inp[1] = "age" -> age_outcome(a[1])
      [] inp[1] = "parity" -> parity_check(a[1], a[2], a[3])
      [] inp[1] = "financial" -> financial_health_check(a[1], a[2], a[3])
      [] inp[1] = "llm" -> llm_analysis(a[1], a[2], a[3])
      [] inp[1] = "llm_deep" -> llm_deep_analysis(a[1], a[2], a[3])
      [] inp[1] = "heuristic" -> heuristic_analysis(a[1], a[2])
      [] OTHER ->
            LET env == a[4] IN
            Ok(company_intel(a[1], a[2], a[3],
                             search_company_info(env[1], env[2], env[3])))

\* the results of the six tasks when the producer inp[1] ended with `ended`:
\* the careers page check of the same request ends with inp[3], the other
\* producers find nothing
ProducedOutcomes(inp, ended) ==
    [p \in ProducerSet |->
        IF p = inp[1] THEN ended
        ELSE IF p = "parity" THEN inp[3]
        ELSE IF p \in {"financial", "llm"} THEN Ok(<<0, None>>)
        ELSE Ok(<<>>)]

ProducedRequest(inp) ==
    AnalyzeRequest("u", ScoreMetadata(IF inp[1] = "age" THEN inp[2][1] ELSE NonePosted))

InitProduced ==
    /\ input \in
          {<<x[1], x[2], parity>> :
              x \in ({"age"} \X {<<p>> : p \in AgeInputs})
                    \cup ({"financial"} \X ({"", "Acme"} \X ApiKeys \X FinancialResponses))
                    \cup ({"llm", "llm_deep"}
                             \X ({"", "We build rockets."} \X ApiKeys \X LlmReplies))
                    \cup ({"heuristic"} \X (HeurTexts \X HeurTitles))
                    \cup ({"company"}
                             \X ({"", "Acme", "Robert Half"} \X CompanyTexts
                                    \X {"Analyst", "Director of Data"} \X NewsEnvs)),
              parity \in {Ok(<<0, None>>), Ok(<<WEIGHT_PARITY_PASS, None>>)}}
          \cup
          {<<"parity", x, Ok(<<0, None>>)>> :
              x \in {"", "Acme"} \X {"", "Lead QA", "Data Engineer", "QA"} \X ParityEnvs}
    /\ output = <<>>
    /\ call = <<>>
    /\ ret = <<>>
    /\ Idle

\* the producer runs to its end
Produce ==
    /\ output = <<>>
    /\ output' = <<ProducerOutcome(input)>>
    /\ UNCHANGED <<input, call, ret, orchestratorVars>>

\* analyze.py:43-62: the results are merged and aggregated
AggregateProduced ==
    /\ output # <<>>
    /\ ret = <<>>
    /\ LET c == AggregateCall(ProducedRequest(input),
                              Gather(ProducedOutcomes(input, output[1])))
       IN  /\ call' = <<c>>
           /\ ret' = <<calculate_ghost_score(c.metadata, c.job_url, c.parity, c.financial,
                                             c.llm, c.heuristics)>>
    /\ UNCHANGED <<input, output, orchestratorVars>>

NextProduced == Produce \/ AggregateProduced

SpecProduced == InitProduced /\ [][NextProduced]_vars

\* the signals a producer returned: the tuple of a scalar producer, the
\* items of a list producer, nothing when it raised
ProducedSignals ==
    IF output = <<>> \/ output[1].exc THEN <<>>
    ELSE IF input[1] \in {"age", "parity", "financial", "llm"} THEN <<output[1].value>>
    ELSE output[1].value

\* C27: every producer attaches a flag to each positive delta it emits, the
\* only non-zero delta without a flag is the negative delta of the careers
\* page check that passes, and a result with ghostScore.score > 0 has a
\* non-empty redFlags.
C27_PositiveScoreHasFlags ==
    /\ \A i \in 1..Len(ProducedSignals) :
          LET sig == ProducedSignals[i] IN
          /\ sig[1] > 0 => sig[2] # None
          /\ sig[1] # 0 /\ sig[2] = None =>
                input[1] = "parity" /\ sig = <<WEIGHT_PARITY_PASS, None>>
    /\ ret # <<>> /\ ret[1].ghostScore.score > 0 => ret[1].redFlags # <<>>

\* a positive signal was produced next to a passing careers page check, and
\* the result has a positive score
C27_Witness ==
    /\ ret # <<>>
    /\ input[1] # "parity"
    /\ input[3] = Ok(<<WEIGHT_PARITY_PASS, None>>)
    /\ ret[1].ghostScore.score > 0
    /\ Len(ret[1].redFlags) = 1

-----------------------------------------------------------------------------
(* scrape_and_analyze: the scrape and the analysis *)

\* no task of the analysis was started and the aggregator was not called
NothingStarted == outcome = <<>> /\ order = <<>> /\ call = <<>>

\* C28: in scrape_and_analyze the scrape comes strictly before the analysis:
\* while the scrape runs and after it failed no producer was started, and
\* after it succeeded the analysis runs exactly once, on the scraped
\* metadata and the requested url.
C28_ScrapeBeforeAnalysis ==
    /\ [](entry = "scrape" =>
            /\ pc = "scrape_job_page" => analyze_request = <<>> /\ NothingStarted
            /\ ScrapeFailed => NothingStarted
            /\ outcome # <<>> => analyze_request # <<>>
            /\ analyze_request # <<>> =>
                  /\ analyze_request[1].url = request.url
                  /\ analyze_request[1].metadata \in ScrapedMetadata(request.url)
            /\ pc = "done" /\ analyze_request # <<>> =>
                  /\ outcome # <<>>
                  /\ Len(order) = Len(Producers)
                  /\ call # <<>>
                  /\ call[1].metadata = analyze_request[1].metadata
                  /\ call[1].job_url = request.url)
    /\ [][entry = "scrape" =>
            /\ analyze_request # <<>> => analyze_request' = analyze_request
            /\ outcome # <<>> => outcome' = outcome
            /\ call # <<>> => call' = call]_vars

\* the scrape succeeded and the analysis of the scraped posting has returned
C28_Witness ==
    /\ entry = "scrape"
    /\ pc = "done"
    /\ analyze_request # <<>>
    /\ analyze_request[1].metadata.title = "Data Engineer"
    /\ response # <<>>
    /\ response[1].jobTitle = "Data Engineer"

-----------------------------------------------------------------------------
(* heuristic_analysis: how the call ends *)

\* C29: heuristic_analysis is total: for every raw text and title it returns
\* a list of signals and never raises, whatever the amounts matched by the
\* salary-range pattern consist of.
C29_HeuristicNeverRaises ==
    output # <<>> => ~output[1].exc

-----------------------------------------------------------------------------
(* calculate_ghost_score on two inputs that differ by one signal *)

LabelRank(label) ==
    CASE label = "safe" -> 0
      [] label = "suspicious" -> 1
      [] OTHER -> 2

\* the result for the inputs of `call` with the signal `sig` added to the
\* heuristics list
ScoreWithAdded(sig) ==
    LET c == call[1] IN
    calculate_ghost_score(c.metadata, c.job_url, c.parity, c.financial, c.llm,
                          Some(c.heuristics.items \o <<sig>>))

\* the result for the inputs of `call` with the delta of the parity signal
\* raised by d
ScoreWithRaised(d) ==
    LET c == call[1] IN
    calculate_ghost_score(c.metadata, c.job_url, <<c.parity[1] + d, c.parity[2]>>,
                          c.financial, c.llm, c.heuristics)

NotBelow(r) ==
    /\ r.ghostScore.score >= ret[1].ghostScore.score
    /\ LabelRank(r.ghostScore.label) >= LabelRank(ret[1].ghostScore.label)

\* C30: adding a signal with a non-negative delta to the inputs of
\* calculate_ghost_score, or raising one delta, never lowers the score and
\* never moves the label downward; adding a signal with a negative delta
\* never raises the score.
C30_Monotone ==
    ret # <<>> =>
        /\ \A d \in {0, 1, 30, 61, 100}, flag \in {None, FlagVague} :
              NotBelow(ScoreWithAdded(<<d, flag>>))
        /\ \A d \in {1, 30, 61, 100} : NotBelow(ScoreWithRaised(d))
        /\ \A d \in {-100, -31, -1} :
              ScoreWithAdded(<<d, None>>).ghostScore.score <= ret[1].ghostScore.score

\* a safe score strictly inside the range: one more signal moves it to
\* suspicious and to ghost, and a negative one lowers it
C30_Witness ==
    /\ ret # <<>>
    /\ ret[1].ghostScore.score = 39
    /\ ScoreWithAdded(<<1, FlagVague>>).ghostScore.label = "suspicious"
    /\ ScoreWithAdded(<<61, FlagVague>>).ghostScore.label = "ghost"
    /\ ScoreWithAdded(<<-1, None>>).ghostScore.score = 38

=============================================================================
